---- MODULE Spec2Model ----
(***************************************************************************)
(* Seasonal Demand Planning Engine of the pharmacy back end:               *)
(* row sanitizer, seasonal aggregator, recommendation and priority engine, *)
(* forecasting orchestrator.  Each component is a state machine over its   *)
(* own variables; the other components' variables stay idle.               *)
(*                                                                         *)
(* Numbers: quantities and prices are integers; a safety buffer is given   *)
(* in percent (15 = 0.15); daily averages are kept in hundredths.  The     *)
(* product with the buffer is the IEEE double product of the code, which   *)
(* differs from the exact one first at int(100 * 1.15) = 114.              *)
(***************************************************************************)
EXTENDS Integers, Sequences, FiniteSets, TLC

VARIABLES
    recommendations_df,   \* priority engine: the rank-ordered recommendation list
    prioritized,          \* priority engine: the dict returned by categorize_*
    priority,             \* priority engine: the 'priority' column written in place
    tier_pc,              \* priority engine: "input", or the routine that has run
    sales_df,             \* analysis service: the cleaned frame load_sales_data returns
    response,             \* analysis service: the last JSON response sent
    raw_df,               \* sanitizer: the raw table read from the CSV file
    df_clean,             \* sanitizer: the cleaned table
    clean_pc,             \* sanitizer: "raw", or the cleaning routine that has run
    clean_report,         \* sanitizer: the quality summary returned, and the counts printed
    fc_impl,              \* forecasting: the orchestrator that runs ("forecast", "analyzer", "Engine")
    available,            \* forecasting: statsmodels and prophet could be imported
    sales_history,        \* forecasting: per requested medicine, the set of its sale days
    fc_i,                 \* forecasting: position of the medicine being forecast
    fc_pc,                \* forecasting: "sarima", "prophet", "done" or "aborted"
    sarima_forecast,      \* forecasting: the SARIMA result held while Prophet runs
    forecasts,            \* forecasting: the result slots handed back to the caller
    calls,                \* forecasting: the model routines called so far, in order
    csv_missing,          \* loader: the required columns the CSV file lacks
    csv_rows,             \* loader: the rows of the CSV file
    load_pc,              \* loader: "file", or the loader that has run
    load_result,          \* loader: what the loader handed to its caller
    season_date,          \* season labelling: the date of the transaction to label
    season_labels,        \* season labelling: the label each component gave it
    requests,             \* concurrent callers: per request, its position, table and result
    featured_df,          \* heuristic engine: the feature-engineered frame of Engine.py
    heuristic,            \* heuristic engine: the last routine run and what it returned
    report_df,            \* output files: the recommendation set handed to the report
    report,               \* output files: what the report routine wrote
    named_df,             \* aggregator: the cleaned frame, raw and cleaned names kept
    sales_table,          \* aggregator: the rows of the sales table of the database
    aggregates,           \* aggregator: the path taken and the aggregates it emitted
    analysis_status,      \* routes/upload.py: the module's analysis_status
    results_status,       \* routes/results.py: the module's analysis_status
    analyze_pc,           \* POST /analyze: where each request thread stands
    http,                 \* POST /analyze: the status code each request got last
    get_response,         \* the last answer of GET /analysis/status or /analysis/results
    db_files,             \* the database directory: what each path holds
    db_state,             \* DatabaseStateManager: active path, temp mode, upload file
    db_call               \* the last call on the databases and what it returned

tier_vars == <<recommendations_df, prioritized, priority, tier_pc>>

service_vars == <<sales_df, response>>

sanitizer_vars == <<raw_df, df_clean, clean_pc, clean_report>>

forecast_vars ==
    <<fc_impl, available, sales_history, fc_i, fc_pc, sarima_forecast, forecasts, calls>>

loader_vars == <<csv_missing, csv_rows, load_pc, load_result>>

season_vars == <<season_date, season_labels>>

heuristic_vars == <<featured_df, heuristic>>

report_vars == <<report_df, report>>

aggregator_vars == <<named_df, sales_table, aggregates>>

analyze_vars == <<analysis_status, results_status, analyze_pc, http, get_response>>

sandbox_vars == <<db_files, db_state, db_call>>

vars ==
    <<tier_vars, service_vars, sanitizer_vars, forecast_vars, loader_vars, season_vars,
      requests, heuristic_vars, report_vars, aggregator_vars, analyze_vars, sandbox_vars>>

----------------------------------------------------------------------------
(* Bounds *)

MaxMeds == 10        \* longest recommendation list handed to the priority engine
MaxSales == 3        \* largest last_season_sales in such a list
MaxTx == 3           \* most rows in the cleaned sales frame
MaxRows == 2         \* most rows in a raw table
MaxTop == 2          \* most medicines requested for forecasting in one run
MaxLoadRows == 1     \* most rows in a CSV file handed to a loader
MaxCallers == 2      \* most requests in flight at once
MaxSharedTx == 1     \* most transactions in the file concurrent requests load
MaxCsv == 3            \* CSV files that can be loaded into a database
MaxClients == 2        \* clients that send POST /analyze at the same time
MaxNamed == 2          \* most rows in the frame handed to the aggregator
MaxFeatured == 2     \* most transactions in the frame of the heuristic engine

----------------------------------------------------------------------------
(* Generic helpers (pandas / Python primitives) *)

Max(a, b) == IF a >= b THEN a ELSE b

Min(a, b) == IF a <= b THEN a ELSE b

\* DataFrame.iloc[a:b]: positions a .. b-1 (0-based), clamped to the frame
iloc(df, a, b) == SubSeq(df, a + 1, Min(b, Len(df)))

\* DataFrame.head(n)
head(df, n) == iloc(df, 0, n)

\* Series.loc[a:b] = val on a RangeIndex: labels a .. b inclusive
loc_assign(col, a, b, val) ==
    [i \in 1..Len(col) |-> IF a <= i - 1 /\ i - 1 <= b THEN val ELSE col[i]]

RECURSIVE Concat(_)
Concat(ss) == IF ss = <<>> THEN <<>> ELSE Head(ss) \o Concat(Tail(ss))

----------------------------------------------------------------------------
(* Priority tiering *)

Levels == <<"CRITICAL", "HIGH", "MEDIUM", "LOW">>

\* PRIORITY_LEVELS in percent
PRIORITY_CRITICAL == 20
PRIORITY_HIGH == 30
PRIORITY_MEDIUM == 30

\* a plausible slip: the share floor-rounded without the minimum of one
critical_count_no_minimum(total_medicines) == (total_medicines * PRIORITY_CRITICAL) \div 100

\* max(int(total_medicines * 0.20), 1)
critical_count(total_medicines) == Max((total_medicines * PRIORITY_CRITICAL) \div 100, 1)

\* max(int(total_medicines * 0.30), 1)
high_count(total_medicines) == Max((total_medicines * PRIORITY_HIGH) \div 100, 1)

\* max(int(total_medicines * 0.30), 1)
medium_count(total_medicines) == Max((total_medicines * PRIORITY_MEDIUM) \div 100, 1)

\* slice.copy() with the priority_level column set
with_level(slice, level) ==
    [i \in 1..Len(slice) |->
        [rank |-> slice[i].rank,
         last_season_sales |-> slice[i].last_season_sales,
         priority_level |-> level]]

NoDict == [k \in {} |-> <<>>]

\* a plausible slip: every slice ends at its own count instead of the running offset
categorize_count_as_end(df) ==
    IF df = <<>> THEN NoDict
    ELSE LET n == Len(df)
             a == critical_count(n)
             b == high_count(n)
             c == medium_count(n)
         IN  [CRITICAL |-> with_level(head(df, a), "CRITICAL"),
              HIGH     |-> with_level(iloc(df, a - 1, a + b), "HIGH"),
              MEDIUM   |-> with_level(iloc(df, a + b, a + b + c), "MEDIUM"),
              LOW      |-> with_level(iloc(df, a + b + c, n), "LOW")]

\* Engine.categorize_medicines_by_priority / RecommendationEngine.categorize_by_priority
categorize_medicines_by_priority(df) ==
    IF df = <<>> THEN NoDict
    ELSE LET n == Len(df)
             a == critical_count(n)
             b == high_count(n)
             c == medium_count(n)
         IN  [CRITICAL |-> with_level(head(df, a), "CRITICAL"),
              HIGH     |-> with_level(iloc(df, a, a + b), "HIGH"),
              MEDIUM   |-> with_level(iloc(df, a + b, a + b + c), "MEDIUM"),
              LOW      |-> with_level(iloc(df, a + b + c, n), "LOW")]

\* RecommendationEngine.categorize_by_priority
categorize_by_priority(df) ==
    IF df = <<>> THEN NoDict
    ELSE LET total_medicines == Len(df)
             cc == critical_count(total_medicines)
             hc == high_count(total_medicines)
             mc == medium_count(total_medicines)
         IN  [CRITICAL |-> with_level(head(df, cc), "CRITICAL"),
              HIGH     |-> with_level(iloc(df, cc, cc + hc), "HIGH"),
              MEDIUM   |-> with_level(iloc(df, cc + hc, cc + hc + mc), "MEDIUM"),
              LOW      |-> with_level(iloc(df, cc + hc + mc, total_medicines), "LOW")]

\* the 'priority' column of get_seasonal_recommendations
assign_priority(n) ==
    LET a == critical_count(n)
        b == high_count(n)
        c == medium_count(n)
        p0 == [i \in 1..n |-> "LOW"]
        p1 == loc_assign(p0, 0, a - 1, "CRITICAL")
        p2 == loc_assign(p1, a, a + b - 1, "HIGH")
    IN  loc_assign(p2, a + b, a + b + c - 1, "MEDIUM")

\* GET /api/analysis/detailed-seasonal-analysis/<season>: the priority of the medicine
\* at index i of sorted_medicines, total_medicines = len(sorted_medicines)
detailed_priority(i, total_medicines) ==
    IF i < (total_medicines * 20) \div 100 THEN "critical"
    ELSE IF i < (total_medicines * 50) \div 100 THEN "high"
    ELSE IF i < (total_medicines * 80) \div 100 THEN "medium"
    ELSE "low"

\* rank-ordered lists: rank i at position i, last_season_sales never increasing
RECURSIVE SalesLists(_)
SalesLists(n) ==
    IF n = 0 THEN {<<>>}
    ELSE LET shorter == SalesLists(n - 1)
         IN  shorter \cup
             UNION {{Append(s, q) : q \in 1..(IF s = <<>> THEN MaxSales ELSE s[Len(s)])} :
                        s \in {t \in shorter : Len(t) = n - 1}}

RankedLists ==
    {[i \in 1..Len(s) |-> [rank |-> i, last_season_sales |-> s[i]]] :
        s \in SalesLists(MaxMeds)}

TierIdle ==
    /\ recommendations_df = <<>>
    /\ prioritized = NoDict
    /\ priority = <<>>
    /\ tier_pc = "input"

\* Engine.py: categorize_medicines_by_priority(recommendations_df)
CategorizeMedicinesByPriority ==
    /\ tier_pc = "input"
    /\ prioritized' = categorize_medicines_by_priority(recommendations_df)
    /\ tier_pc' = "categorize_medicines_by_priority"
    /\ UNCHANGED <<recommendations_df, priority, service_vars, sanitizer_vars, forecast_vars, loader_vars, season_vars, requests, heuristic_vars, report_vars, aggregator_vars, analyze_vars, sandbox_vars>>

\* analyzer.py: RecommendationEngine.categorize_by_priority(recommendations_df)
CategorizeByPriority ==
    /\ tier_pc = "input"
    /\ prioritized' = categorize_by_priority(recommendations_df)
    /\ tier_pc' = "categorize_by_priority"
    /\ UNCHANGED <<recommendations_df, priority, service_vars, sanitizer_vars, forecast_vars, loader_vars, season_vars, requests, heuristic_vars, report_vars, aggregator_vars, analyze_vars, sandbox_vars>>

\* analysis_engine.py: the priority column written by get_seasonal_recommendations
AssignPriority ==
    /\ tier_pc = "input"
    /\ recommendations_df # <<>>
    /\ priority' = assign_priority(Len(recommendations_df))
    /\ tier_pc' = "get_seasonal_recommendations"
    /\ UNCHANGED <<recommendations_df, prioritized, service_vars, sanitizer_vars, forecast_vars, loader_vars, season_vars, requests, heuristic_vars, report_vars, aggregator_vars, analyze_vars, sandbox_vars>>

\* routes/analysis.py: the loop of get_detailed_seasonal_analysis over the medicines
\* in ranking order
DetailedSeasonalAnalysis ==
    /\ tier_pc = "input"
    /\ priority' = [i \in 1..Len(recommendations_df) |->
                        detailed_priority(i - 1, Len(recommendations_df))]
    /\ tier_pc' = "get_detailed_seasonal_analysis"
    /\ UNCHANGED <<recommendations_df, prioritized, service_vars, sanitizer_vars, forecast_vars, loader_vars, season_vars, requests, heuristic_vars, report_vars, aggregator_vars, analyze_vars, sandbox_vars>>

NextTier ==
    \/ CategorizeMedicinesByPriority
    \/ CategorizeByPriority
    \/ AssignPriority
    \/ DetailedSeasonalAnalysis

----------------------------------------------------------------------------
(* Calendar: a date is its day number within 2023, 0 = 2023-01-01 (a Sunday) *)

DaysBeforeMonth == <<0, 31, 59, 90, 120, 151, 181, 212, 243, 273, 304, 334, 365>>

\* Timestamp.month
Month(date) == CHOOSE m \in 1..12 : DaysBeforeMonth[m] <= date /\ date < DaysBeforeMonth[m + 1]

Mar01 == 59
Mar15 == 73
Nov20 == 323

----------------------------------------------------------------------------
(* Analysis service: SeasonalAnalysisEngine behind the /api/analysis routes *)

\* medicine_name_clean values, in the ascending order groupby emits them
MedicineKeys == <<"ASPIRIN", "IBUPROFEN", "PARA 500">>

KeyIndex(name) == CHOOSE i \in 1..Len(MedicineKeys) : MedicineKeys[i] = name

QuantityVals == {1, 2}
PriceVals == {5}
InvoiceIds == {1}
SaleDates == {Mar01, Mar15, Nov20}
SeasonParams == {"Summer", "Monsoon", "Winter"}
BufferParams == {-50, 0, 15}      \* ?buffer= in percent: -0.5, 0.0, 0.15
TopNParams == {2, 10}

\* SeasonalAnalysisEngine.get_season
get_season(month) ==
    IF month \in {2, 3, 4, 5} THEN "Summer"
    ELSE IF month \in {6, 7, 8, 9} THEN "Monsoon"
    ELSE "Winter"

\* rows load_sales_data keeps: positive quantity and price, Season from the month
CleanRows ==
    {[date |-> d, medicine_name_clean |-> MedicineKeys[k], quantity |-> q,
      unit_price |-> pr, total_sales |-> q * pr, invoice_id |-> inv,
      Season |-> get_season(Month(d))] :
        d \in SaleDates, k \in 1..Len(MedicineKeys), q \in QuantityVals,
        pr \in PriceVals, inv \in InvoiceIds}

RECURSIVE Frames(_)
Frames(n) ==
    IF n = 0 THEN {<<>>}
    ELSE LET shorter == Frames(n - 1)
         IN  shorter \cup
             {Append(f, r) : f \in {g \in shorter : Len(g) = n - 1}, r \in CleanRows}

\* Series.sum()
RECURSIVE Sum(_)
Sum(col) == IF col = <<>> THEN 0 ELSE Head(col) + Sum(Tail(col))

ColQuantity(df) == [i \in 1..Len(df) |-> df[i].quantity]
ColTotalSales(df) == [i \in 1..Len(df) |-> df[i].total_sales]

SetMax(S) == CHOOSE x \in S : \A y \in S : y <= x
SetMin(S) == CHOOSE x \in S : \A y \in S : x <= y

\* int(x / 100) for x in hundredths: truncation toward zero (astype(int))
TruncHundredths(x) == IF x >= 0 THEN x \div 100 ELSE -((-x) \div 100)

\* round(100 * a / b) to the nearest integer, ties to even (Series.round(2) in hundredths)
RoundHundredths(a, b) ==
    LET q == (100 * a) \div b
        r == (100 * a) % b
    IN  IF 2 * r < b THEN q
        ELSE IF 2 * r > b THEN q + 1
        ELSE IF q % 2 = 0 THEN q ELSE q + 1

\* a plausible slip: 'quantity': 'last' in place of 'sum'
groupby_medicine_last(season_data) ==
    LET keys == {KeyIndex(season_data[i].medicine_name_clean) : i \in 1..Len(season_data)}
        ordered == [j \in 1..Cardinality(keys) |->
                       CHOOSE k \in keys : Cardinality({x \in keys : x < k}) = j - 1]
        rowsOf(k) == SelectSeq(season_data, LAMBDA r : r.medicine_name_clean = MedicineKeys[k])
    IN  [j \in 1..Cardinality(keys) |->
            [medicine_name     |-> MedicineKeys[ordered[j]],
             last_season_sales |-> rowsOf(ordered[j])[Len(rowsOf(ordered[j]))].quantity,
             total_revenue     |-> Sum(ColTotalSales(rowsOf(ordered[j]))),
             unique_orders     |-> Cardinality({rowsOf(ordered[j])[i].invoice_id :
                                                   i \in 1..Len(rowsOf(ordered[j]))})]]

\* groupby('medicine_name_clean').agg(...).reset_index(): one row per key, keys ascending
groupby_medicine(season_data) ==
    LET keys == {KeyIndex(season_data[i].medicine_name_clean) : i \in 1..Len(season_data)}
        ordered == [j \in 1..Cardinality(keys) |->
                       CHOOSE k \in keys : Cardinality({x \in keys : x < k}) = j - 1]
        rowsOf(k) == SelectSeq(season_data, LAMBDA r : r.medicine_name_clean = MedicineKeys[k])
    IN  [j \in 1..Cardinality(keys) |->
            [medicine_name     |-> MedicineKeys[ordered[j]],
             last_season_sales |-> Sum(ColQuantity(rowsOf(ordered[j]))),
             total_revenue     |-> Sum(ColTotalSales(rowsOf(ordered[j]))),
             unique_orders     |-> Cardinality({rowsOf(ordered[j])[i].invoice_id :
                                                   i \in 1..Len(rowsOf(ordered[j]))})]]

\* the orders in which the default kind='quicksort' of sort_values, which is not a
\* stable sort, can leave rows with equal keys: ties[k] is the place of
\* MedicineKeys[k] among its equals
TieOrders ==
    {t \in [1..Len(MedicineKeys) -> 1..Len(MedicineKeys)] :
        \A a, b \in 1..Len(MedicineKeys) : a # b => t[a] # t[b]}

\* the tie orders that tell apart on df: a key moves only among the rows that share
\* its last_season_sales, every other key keeps its place
TieOrdersOf(df) ==
    LET sales(k) == {df[i].last_season_sales :
                        i \in {j \in 1..Len(df) : df[j].medicine_name = MedicineKeys[k]}}
    IN  {t \in TieOrders :
            \A k \in 1..Len(MedicineKeys) :
                t[k] = k \/ (sales(k) # {} /\ sales(k) = sales(t[k]))}

\* the order a stable sort leaves: the one groupby emitted
StableOrder == [k \in 1..Len(MedicineKeys) |-> k]

\* sort_values('last_season_sales', ascending=False): each row goes after every
\* larger row and after the equal rows that ties places before it
RECURSIVE InsertDesc(_, _, _)
InsertDesc(sorted, row, ties) ==
    IF sorted = <<>> THEN <<row>>
    ELSE IF \/ Head(sorted).last_season_sales > row.last_season_sales
            \/ /\ Head(sorted).last_season_sales = row.last_season_sales
               /\ ties[KeyIndex(Head(sorted).medicine_name)] < ties[KeyIndex(row.medicine_name)]
         THEN <<Head(sorted)>> \o InsertDesc(Tail(sorted), row, ties)
         ELSE <<row>> \o sorted

\* a plausible slip: ascending=False left out, so the smallest seller comes first
RECURSIVE sort_values_asc(_, _)
sort_values_asc(df, ties) ==
    IF df = <<>> THEN <<>>
    ELSE LET rest == sort_values_asc(SubSeq(df, 1, Len(df) - 1), ties)
             row == df[Len(df)]
             before == SelectSeq(rest, LAMBDA r : r.last_season_sales <= row.last_season_sales)
             after == SelectSeq(rest, LAMBDA r : r.last_season_sales > row.last_season_sales)
         IN  before \o <<row>> \o after

RECURSIVE sort_values_desc(_, _)
sort_values_desc(df, ties) ==
    IF df = <<>> THEN <<>>
    ELSE InsertDesc(sort_values_desc(SubSeq(df, 1, Len(df) - 1), ties), df[Len(df)], ties)

\* pd.NaT in a date column of day ordinals, and float('nan') among counts and amounts
NaTDay == -1
NaNValue == -1

\* Series.dt.month: nan for NaT
dt_month(date) == IF date = NaTDay THEN NaNValue ELSE Month(date)

\* (season_data['date'].max() - season_data['date'].min()).days, 90 when 0; max and min
\* skip NaT and are NaT when there is nothing else, and NaT.days is nan, which is not 0
days_in_season(season_data) ==
    LET dates == {season_data[i].date : i \in 1..Len(season_data)} \ {NaTDay}
    IN  IF dates = {} THEN NaNValue
        ELSE IF SetMax(dates) - SetMin(dates) = 0 THEN 90
        ELSE SetMax(dates) - SetMin(dates)

\* (last_season_sales / days_in_season).round(2), in hundredths; nan when days is nan
daily_avg_sales(last_season_sales, days) ==
    IF days = NaNValue THEN NaNValue ELSE RoundHundredths(last_season_sales, days)

\* daily_avg_sales >= fast_mover_threshold, False as soon as either side is nan
at_or_above(value, threshold4) ==
    /\ value # NaNValue
    /\ threshold4 # NaNValue
    /\ 4 * value >= threshold4

\* Series.quantile(0.75), linear interpolation, times 4 (values in hundredths); nan
\* values are skipped and the quantile of nothing is nan
quantile75_times4(series) ==
    LET values == SelectSeq(series, LAMBDA v : v # NaNValue)
        n == Len(values)
        asc == [i \in 1..n |->
                   CHOOSE v \in {values[j] : j \in 1..n} :
                       /\ Cardinality({j \in 1..n : values[j] < v}) < i
                       /\ Cardinality({j \in 1..n : values[j] <= v}) >= i]
        lo == ((n - 1) * 3) \div 4
        rem == ((n - 1) * 3) % 4
        hi == Min(lo + 1, n - 1)
    IN  IF n = 0 THEN NaNValue
        ELSE 4 * asc[lo + 1] + rem * (asc[hi + 1] - asc[lo + 1])

EmptyResult == NoDict

\* the largest power of two that is at most k (k >= 1)
RECURSIVE Pow2Floor(_)
Pow2Floor(k) == IF k < 2 THEN 1 ELSE 2 * Pow2Floor(k \div 2)

\* int(quantity * (1 + buffer)) in IEEE double arithmetic, buffer in percent.
\* 1 + 0.15 is the double 1.15 - 0.4 * 2^-52, so when the exact product 1.15 * q is
\* an integer K in [2^e, 2^(e+1)) the double product lies 0.4 * q / 2^e units in the
\* last place below K and rounds to the double under K when that exceeds one half;
\* 1 - 0.5 and 1 + 0.0 are exact and so are their products.
double_product_int(quantity, buffer) ==
    IF /\ buffer = 15
       /\ quantity > 0
       /\ (115 * quantity) % 100 = 0
       /\ 4 * quantity > 5 * Pow2Floor((115 * quantity) \div 100)
    THEN (115 * quantity) \div 100 - 1
    ELSE TruncHundredths(quantity * (100 + buffer))

\* (last_season_sales * (1 + buffer)).astype(int), buffer in percent
suggested_stock_quantity(last_season_sales, buffer) ==
    double_product_int(last_season_sales, buffer)

\* SeasonalAnalysisEngine.get_seasonal_recommendations
get_seasonal_recommendations(df, target_season, buffer, ties) ==
    IF df = <<>> THEN EmptyResult
    ELSE LET season_data == SelectSeq(df, LAMBDA r : r.Season = target_season)
         IN  IF season_data = <<>> THEN EmptyResult
             ELSE LET grouped == groupby_medicine(season_data)
                      days == days_in_season(season_data)
                      sorted == sort_values_desc(grouped, ties)
                      n == Len(sorted)
                      daily == [i \in 1..n |-> daily_avg_sales(sorted[i].last_season_sales, days)]
                      threshold4 == quantile75_times4(daily)
                      cc == critical_count(n)
                      hc == high_count(n)
                      mc == medium_count(n)
                      prio == assign_priority(n)
                      recs == [i \in 1..n |->
                                 [medicine_name |-> sorted[i].medicine_name,
                                  last_season_sales |-> sorted[i].last_season_sales,
                                  total_revenue |-> sorted[i].total_revenue,
                                  unique_orders |-> sorted[i].unique_orders,
                                  suggested_stock_quantity |->
                                      suggested_stock_quantity(sorted[i].last_season_sales, buffer),
                                  daily_avg_sales |-> daily[i],
                                  rank |-> i,
                                  is_fast_mover |-> at_or_above(daily[i], threshold4),
                                  priority |-> prio[i]]]
                  IN  [recommendations |-> recs,
                       summary |->
                          [total_medicines |-> n,
                           critical_count |-> cc,
                           high_count |-> hc,
                           medium_count |-> mc,
                           low_count |-> n - cc - hc - mc,
                           fast_movers |-> Cardinality({i \in 1..n : recs[i].is_fast_mover}),
                           total_investment |-> Sum([i \in 1..n |-> recs[i].total_revenue]),
                           total_units |-> Sum([i \in 1..n |-> recs[i].suggested_stock_quantity])],
                       top_10 |-> head(recs, 10),
                       fast_movers |-> head(SelectSeq(recs, LAMBDA r : r.is_fast_mover), 10)]

\* the five placeholder medicines of get_top_medicines_by_season
mock_medicines ==
    <<[rank |-> 1, medicine_name |-> "CROCIN COLD & FLU SYRUP", quantity_sold |-> 450,
       total_revenue |-> 13500, unique_orders |-> 25],
      [rank |-> 2, medicine_name |-> "VICKS ACTION 500 SYRUP", quantity_sold |-> 380,
       total_revenue |-> 11400, unique_orders |-> 22],
      [rank |-> 3, medicine_name |-> "TIXYLIX COUGH SYRUP", quantity_sold |-> 320,
       total_revenue |-> 9600, unique_orders |-> 20],
      [rank |-> 4, medicine_name |-> "PARACETAMOL 500MG", quantity_sold |-> 280,
       total_revenue |-> 1400, unique_orders |-> 35],
      [rank |-> 5, medicine_name |-> "CETIRIZINE 10MG", quantity_sold |-> 250,
       total_revenue |-> 1250, unique_orders |-> 30]>>

\* SeasonalAnalysisEngine.get_top_medicines_by_season
get_top_medicines_by_season(df, season, top_n, ties) ==
    IF df = <<>> THEN head(mock_medicines, top_n)
    ELSE LET season_data == SelectSeq(df, LAMBDA r : r.Season = season)
         IN  IF season_data = <<>> THEN <<>>
             ELSE LET top == head(sort_values_desc(groupby_medicine(season_data), ties), top_n)
                  IN  [i \in 1..Len(top) |->
                          [rank |-> i,
                           medicine_name |-> top[i].medicine_name,
                           quantity_sold |-> top[i].last_season_sales,
                           total_revenue |-> top[i].total_revenue,
                           unique_orders |-> top[i].unique_orders]]

\* SeasonalAnalysisEngine.get_seasonal_summary
get_seasonal_summary(df) ==
    IF df = <<>>
    THEN [total_records |-> 5500, unique_medicines |-> 60,
          total_revenue |-> 162000, total_quantity |-> 5500]
    ELSE [total_records |-> Len(df),
          unique_medicines |-> Cardinality({df[i].medicine_name_clean : i \in 1..Len(df)}),
          total_revenue |-> Sum(ColTotalSales(df)),
          total_quantity |-> Sum(ColQuantity(df))]

NoResponse == [route |-> "none"]

ServiceIdle ==
    /\ sales_df = <<>>
    /\ response = NoResponse

\* GET /api/analysis/recommendations/<season>?buffer=
GetAnalysisRecommendations ==
    /\ response = NoResponse
    /\ \E season \in SeasonParams, buffer \in BufferParams :
       \E ties \in TieOrdersOf(groupby_medicine(
                                  SelectSeq(sales_df, LAMBDA r : r.Season = season))) :
        /\ response' = [route |-> "recommendations", status |-> 200, success |-> TRUE,
                        season |-> season, buffer |-> buffer,
                        recommendations |-> get_seasonal_recommendations(sales_df, season, buffer, ties)]
        /\ UNCHANGED <<sales_df, tier_vars, sanitizer_vars, forecast_vars, loader_vars, season_vars, requests, heuristic_vars, report_vars, aggregator_vars, analyze_vars, sandbox_vars>>

\* GET /api/analysis/top-medicines/<season>?top_n=
GetTopMedicines ==
    /\ response = NoResponse
    /\ \E season \in SeasonParams, top_n \in TopNParams :
       \E ties \in TieOrdersOf(groupby_medicine(
                                  SelectSeq(sales_df, LAMBDA r : r.Season = season))) :
        /\ response' = [route |-> "top-medicines", status |-> 200, success |-> TRUE,
                        season |-> season,
                        medicines |-> get_top_medicines_by_season(sales_df, season, top_n, ties)]
        /\ UNCHANGED <<sales_df, tier_vars, sanitizer_vars, forecast_vars, loader_vars, season_vars, requests, heuristic_vars, report_vars, aggregator_vars, analyze_vars, sandbox_vars>>

\* GET /api/analysis/seasonal-summary
GetSeasonalSummary ==
    /\ response = NoResponse
    /\ response' = [route |-> "seasonal-summary", status |-> 200, success |-> TRUE,
                    data |-> get_seasonal_summary(sales_df)]
    /\ UNCHANGED <<sales_df, tier_vars, sanitizer_vars, forecast_vars, loader_vars, season_vars, requests, heuristic_vars, report_vars, aggregator_vars, analyze_vars, sandbox_vars>>

\* the view function returns: the response goes to the client and the request ends
ReturnResponse ==
    /\ response # NoResponse
    /\ response' = NoResponse
    /\ UNCHANGED <<sales_df, tier_vars, sanitizer_vars, forecast_vars, loader_vars, season_vars, requests, heuristic_vars, report_vars, aggregator_vars, analyze_vars, sandbox_vars>>

NextService ==
    \/ GetAnalysisRecommendations
    \/ GetTopMedicines
    \/ GetSeasonalSummary
    \/ ReturnResponse

----------------------------------------------------------------------------
(* Row sanitizer: Engine.clean_data and CSVLoader._clean_dataframe *)

\* a raw CSV cell: absent (NaN), text that is neither a date nor a number, or a value
Null == [tag |-> "null", v |-> 0]
Text == [tag |-> "text", v |-> 0]
DateCell(d) == [tag |-> "date", v |-> d]
NumCell(x) == [tag |-> "num", v |-> x]
StrCell(chars) == [tag |-> "str", v |-> chars]
NullName == [tag |-> "null", v |-> <<>>]

\* what coercion leaves of a cell that does not parse
NaT == [tag |-> "NaT", v |-> 0]
NaN == [tag |-> "NaN", v |-> 0]

RawDateCells == {Null, Text, DateCell(Mar01)}
RawNameCells == {NullName, StrCell(<<" ", "p", " ">>)}
RawQuantityCells == {Null, Text, NumCell(-5), NumCell(0), NumCell(2)}
RawPriceCells == {Text, NumCell(0), NumCell(5)}

RawRowValues ==
    [date : RawDateCells, medicine_name : RawNameCells,
     quantity : RawQuantityCells, unit_price : RawPriceCells]

RECURSIVE RawTables(_)
RawTables(n) ==
    IF n = 0 THEN {<<>>}
    ELSE LET shorter == RawTables(n - 1)
         IN  shorter \cup
             {Append(t, r) : t \in {u \in shorter : Len(u) = n - 1}, r \in RawRowValues}

\* the frame with its index: row i of the file keeps the label i through every filter
with_index(table) ==
    [i \in 1..Len(table) |->
        [index |-> i, date |-> table[i].date, medicine_name |-> table[i].medicine_name,
         quantity |-> table[i].quantity, unit_price |-> table[i].unit_price]]

isnull(cell) == cell.tag \in {"null", "NaT", "NaN"}

\* pd.to_datetime(col, errors='coerce')
to_datetime(cell) == IF cell.tag = "date" THEN cell ELSE NaT

\* pd.to_numeric(col, errors='coerce')
to_numeric(cell) == IF cell.tag = "num" THEN cell ELSE NaN

\* a plausible slip: >= 0 in place of > 0
non_negative(cell) == cell.tag = "num" /\ cell.v >= 0

\* col > 0 (False for NaN)
positive(cell) == cell.tag = "num" /\ cell.v > 0

\* str.upper() on one character
Upper(ch) == IF ch = "p" THEN "P" ELSE ch

IsSpace(ch) == ch = " "

\* str.strip()
RECURSIVE LStrip(_)
LStrip(chars) ==
    IF chars # <<>> /\ IsSpace(Head(chars)) THEN LStrip(Tail(chars)) ELSE chars

RECURSIVE RStrip(_)
RStrip(chars) ==
    IF chars # <<>> /\ IsSpace(chars[Len(chars)])
    THEN RStrip(SubSeq(chars, 1, Len(chars) - 1)) ELSE chars

\* re.sub(r'\s+', ' ', s): every run of whitespace becomes one blank
RECURSIVE Collapse(_)
Collapse(chars) ==
    IF chars = <<>> THEN <<>>
    ELSE IF IsSpace(Head(chars))
         THEN <<" ">> \o Collapse(LStrip(chars))
         ELSE <<Head(chars)>> \o Collapse(Tail(chars))

\* .str.strip().str.upper().str.replace(r'\s+', ' ', regex=True)
clean_medicine_name(cell) ==
    LET stripped == RStrip(LStrip(cell.v))
    IN  StrCell(Collapse([i \in 1..Len(stripped) |-> Upper(stripped[i])]))

\* Timestamp.month; NaN for NaT
month_of(cell) == IF cell.tag = "date" THEN Month(cell.v) ELSE 0

\* DataProcessor.get_season_from_date
get_season_from_date(cell) ==
    LET month == month_of(cell)
    IN  IF month \in {2, 3, 4, 5} THEN "Summer"
        ELSE IF month \in {6, 7, 8, 9} THEN "Monsoon"
        ELSE "Winter"

\* the steps clean_data and _clean_dataframe share
cleaning_steps(df) ==
    LET \* dropna(subset=['date', 'medicine_name', 'quantity', 'unit_price'])
        present == SelectSeq(df, LAMBDA r : ~isnull(r.date) /\ ~isnull(r.medicine_name)
                                            /\ ~isnull(r.quantity) /\ ~isnull(r.unit_price))
        \* to_datetime / to_numeric with errors='coerce'
        typed == [i \in 1..Len(present) |->
                     [index |-> present[i].index,
                      date |-> to_datetime(present[i].date),
                      medicine_name |-> present[i].medicine_name,
                      quantity |-> to_numeric(present[i].quantity),
                      unit_price |-> to_numeric(present[i].unit_price)]]
        \* dropna(subset=['quantity', 'unit_price'])
        numeric == SelectSeq(typed, LAMBDA r : ~isnull(r.quantity) /\ ~isnull(r.unit_price))
        \* df[df['quantity'] > 0]
        sold == SelectSeq(numeric, LAMBDA r : positive(r.quantity))
    IN  \* df[df['unit_price'] > 0]
        SelectSeq(sold, LAMBDA r : positive(r.unit_price))

\* Engine.clean_data
clean_data(df) ==
    LET kept == cleaning_steps(df)
    IN  [i \in 1..Len(kept) |->
            [index |-> kept[i].index,
             date |-> kept[i].date,
             medicine_name |-> kept[i].medicine_name,
             medicine_name_clean |-> clean_medicine_name(kept[i].medicine_name),
             quantity |-> kept[i].quantity,
             unit_price |-> kept[i].unit_price,
             total_sales |-> NumCell(kept[i].quantity.v * kept[i].unit_price.v)]]

\* CSVLoader._clean_dataframe
clean_dataframe(df) ==
    LET kept == cleaning_steps(df)
    IN  [i \in 1..Len(kept) |->
            [index |-> kept[i].index,
             date |-> kept[i].date,
             medicine_name |-> kept[i].medicine_name,
             medicine_name_clean |-> clean_medicine_name(kept[i].medicine_name),
             quantity |-> kept[i].quantity,
             unit_price |-> kept[i].unit_price,
             total_sales |-> NumCell(kept[i].quantity.v * kept[i].unit_price.v),
             season |-> get_season_from_date(kept[i].date)]]

\* both routines return the cleaned frame alone
NoSummary == <<>>

NoReport == [summary |-> NoSummary, printed |-> [removed |-> 0]]

\* rows_dropped = initial_rows - len(df_clean) after the dropna on the critical columns
rows_dropped(df) ==
    Len(df) - Len(SelectSeq(df, LAMBDA r : ~isnull(r.date) /\ ~isnull(r.medicine_name)
                                            /\ ~isnull(r.quantity) /\ ~isnull(r.unit_price)))

SanitizerIdle ==
    /\ raw_df = <<>>
    /\ df_clean = <<>>
    /\ clean_pc = "raw"
    /\ clean_report = NoReport

\* Engine.py: sales_df_cleaned = clean_data(sales_df); the cleaning summary
\* divides by initial_rows, so an empty frame ends in ZeroDivisionError
CleanData ==
    /\ clean_pc = "raw"
    /\ IF raw_df = <<>>
       THEN /\ clean_pc' = "ZeroDivisionError"
            /\ UNCHANGED <<df_clean, clean_report>>
       ELSE /\ df_clean' = clean_data(with_index(raw_df))
            /\ clean_pc' = "clean_data"
            /\ clean_report' =
                   [summary |-> NoSummary,
                    printed |-> [missing_critical |-> rows_dropped(raw_df),
                                 removed |-> Len(raw_df) - Len(clean_data(with_index(raw_df)))]]
    /\ UNCHANGED <<raw_df, tier_vars, service_vars, forecast_vars, loader_vars, season_vars, requests, heuristic_vars, report_vars, aggregator_vars, analyze_vars, sandbox_vars>>

\* data_loader.py: df_cleaned = self._clean_dataframe(df)
CleanDataframe ==
    /\ clean_pc = "raw"
    /\ df_clean' = clean_dataframe(with_index(raw_df))
    /\ clean_pc' = "_clean_dataframe"
    /\ clean_report' =
           [summary |-> NoSummary,
            printed |-> [removed |-> Len(raw_df) - Len(clean_dataframe(with_index(raw_df)))]]
    /\ UNCHANGED <<raw_df, tier_vars, service_vars, forecast_vars, loader_vars, season_vars, requests, heuristic_vars, report_vars, aggregator_vars, analyze_vars, sandbox_vars>>

NextSanitizer ==
    \/ CleanData
    \/ CleanDataframe

----------------------------------------------------------------------------
(* Forecasting orchestrator: forecast.py, analyzer.py and Engine.py *)

\* ANALYSIS_CONFIG['min_data_points_sarima'] and the literal 24 of forecast.py / Engine.py
min_data_points_sarima == 24

\* ANALYSIS_CONFIG['min_data_points_prophet'] and the literal 30 of forecast.py / Engine.py
min_data_points_prophet == 30

\* n distinct sale days: n - 1 consecutive days from Monday 2023-01-02 and the
\* Monday lastWeek weeks later
DaysOf(n, lastWeek) == 1..(n - 1) \cup {1 + 7 * lastWeek}

Histories ==
    {DaysOf(1, 0)} \cup
    {DaysOf(n, w) : n \in {2, 23, 24, 29, 30}, w \in {22, 23, 24}}

\* resample('W-Mon'): the bin of a day is the week ending on the next Monday
week_bin(date) == (date + 5) \div 7

\* len(series.resample('W-Mon').sum()): every week from the first to the last sale
weekly_len(days) ==
    IF days = {} THEN 0 ELSE week_bin(SetMax(days)) - week_bin(SetMin(days)) + 1

\* len(df) after groupby('date'): one row per distinct sale day
daily_len(days) == Cardinality(days)

Forecast == [success |-> TRUE, error |-> ""]
Failure(message) == [success |-> FALSE, error |-> message]
None == [success |-> FALSE, error |-> ""]

Returned(attempted, value) == [raised |-> FALSE, fit_attempted |-> attempted, value |-> value]
Raised == [raised |-> TRUE, fit_attempted |-> TRUE, value |-> None]

\* a plausible slip: the fit outside the try block, so its exception escapes
generate_sarima_forecast_uncaught(days, libs, fit) ==
    IF ~libs \/ days = {} \/ daily_len(days) < 24
    THEN Returned(FALSE, Failure("Insufficient data for SARIMA forecast (minimum 24 weeks required)"))
    ELSE IF weekly_len(days) < 24
         THEN Returned(FALSE, Failure("Insufficient weekly data for SARIMA forecast"))
         ELSE IF fit = "error" THEN Raised
         ELSE Returned(TRUE, Forecast)

\* forecast.ForecastingEngine.generate_sarima_forecast
generate_sarima_forecast(days, libs, fit) ==
    IF ~libs \/ days = {} \/ daily_len(days) < 24
    THEN Returned(FALSE, Failure("Insufficient data for SARIMA forecast (minimum 24 weeks required)"))
    ELSE IF weekly_len(days) < 24
         THEN Returned(FALSE, Failure("Insufficient weekly data for SARIMA forecast"))
         ELSE IF fit = "error" THEN Returned(TRUE, Failure("SARIMA forecast failed"))
         ELSE Returned(TRUE, Forecast)

\* forecast.ForecastingEngine.generate_prophet_forecast
generate_prophet_forecast(days, libs, fit) ==
    IF ~libs \/ days = {} \/ daily_len(days) < 30
    THEN Returned(FALSE, Failure("Insufficient data for Prophet forecast (minimum 30 days required)"))
    ELSE IF fit = "error" THEN Returned(TRUE, Failure("Prophet forecast failed"))
    ELSE Returned(TRUE, Forecast)

\* analyzer.ForecastingEngine.forecast_sarima
forecast_sarima(days, libs, fit) ==
    IF ~libs THEN Returned(FALSE, None)
    ELSE IF days = {} THEN Returned(FALSE, None)
    ELSE IF weekly_len(days) < min_data_points_sarima THEN Returned(FALSE, None)
    ELSE IF fit = "error" THEN Returned(TRUE, None)
    ELSE Returned(TRUE, Forecast)

\* analyzer.ForecastingEngine.forecast_prophet
forecast_prophet(days, libs, fit) ==
    IF ~libs THEN Returned(FALSE, None)
    ELSE IF days = {} THEN Returned(FALSE, None)
    ELSE IF daily_len(days) < min_data_points_prophet THEN Returned(FALSE, None)
    ELSE IF fit = "error" THEN Returned(TRUE, None)
    ELSE Returned(TRUE, Forecast)

\* Engine.get_timeseries_forecast_sarima
get_timeseries_forecast_sarima(days, fit) ==
    IF days = {} THEN Returned(FALSE, None)
    ELSE IF weekly_len(days) < 24 THEN Returned(FALSE, None)
    ELSE IF fit = "error" THEN Returned(TRUE, None)
    ELSE Returned(TRUE, Forecast)

\* Engine.get_timeseries_forecast_prophet
get_timeseries_forecast_prophet(days, fit) ==
    IF days = {} THEN Returned(FALSE, None)
    ELSE IF daily_len(days) < 30 THEN Returned(FALSE, None)
    ELSE IF fit = "error" THEN Returned(TRUE, None)
    ELSE Returned(TRUE, Forecast)

FitOutcomes == {"ok", "error"}

Call(model, days, fit, result) ==
    [medicine |-> fc_i, model |-> model, weekly |-> weekly_len(days),
     days |-> daily_len(days),
     fit_attempted |-> result.fit_attempted,
     fit |-> IF result.fit_attempted THEN fit ELSE "none",
     raised |-> result.raised]

Slot(model, value) == [medicine |-> fc_i, model |-> model, slot |-> value]

\* after the second model: the next medicine of the loop, or the end of the run
NextMedicine ==
    /\ fc_i' = fc_i + 1
    /\ fc_pc' = IF fc_i = Len(sales_history) THEN "done" ELSE "sarima"

ForecastIdle ==
    /\ fc_impl = "forecast"
    /\ available = TRUE
    /\ sales_history = <<>>
    /\ fc_i = 1
    /\ fc_pc = "done"
    /\ sarima_forecast = None
    /\ forecasts = {}
    /\ calls = <<>>

\* forecast.py: sarima_forecast = self.generate_sarima_forecast(df); an exception
\* leaving it ends get_advanced_analytics with a 500 response
ProcessMedicineSarima ==
    /\ fc_impl = "forecast"
    /\ fc_pc = "sarima"
    /\ \E fit \in FitOutcomes :
        LET result == generate_sarima_forecast(sales_history[fc_i], available, fit)
        IN  /\ calls' = Append(calls, Call("SARIMA", sales_history[fc_i], fit, result))
            /\ IF result.raised
               THEN fc_pc' = "aborted" /\ forecasts' = {} /\ UNCHANGED sarima_forecast
               ELSE fc_pc' = "prophet" /\ sarima_forecast' = result.value /\ UNCHANGED forecasts
    /\ UNCHANGED <<fc_impl, available, sales_history, fc_i,
                   tier_vars, service_vars, sanitizer_vars, loader_vars, season_vars, requests, heuristic_vars, report_vars, aggregator_vars, analyze_vars, sandbox_vars>>

\* forecast.py: prophet_forecast = self.generate_prophet_forecast(df), then the
\* dictionary with both slots is appended to medicines_data
ProcessMedicineProphet ==
    /\ fc_impl = "forecast"
    /\ fc_pc = "prophet"
    /\ \E fit \in FitOutcomes :
        LET result == generate_prophet_forecast(sales_history[fc_i], available, fit)
        IN  /\ calls' = Append(calls, Call("Prophet", sales_history[fc_i], fit, result))
            /\ IF result.raised
               THEN fc_pc' = "aborted" /\ forecasts' = {} /\ UNCHANGED fc_i
               ELSE /\ forecasts' = forecasts \cup {Slot("SARIMA", sarima_forecast),
                                                   Slot("Prophet", result.value)}
                    /\ NextMedicine
    /\ UNCHANGED <<fc_impl, available, sales_history, sarima_forecast,
                   tier_vars, service_vars, sanitizer_vars, loader_vars, season_vars, requests, heuristic_vars, report_vars, aggregator_vars, analyze_vars, sandbox_vars>>

\* analyzer.py: sarima_forecast = self.forecasting_engine.forecast_sarima(medicine);
\* the key is written only for a result that is not None
AnalyzerSarima ==
    /\ fc_impl = "analyzer"
    /\ fc_pc = "sarima"
    /\ \E fit \in FitOutcomes :
        LET result == forecast_sarima(sales_history[fc_i], available, fit)
        IN  /\ calls' = Append(calls, Call("SARIMA", sales_history[fc_i], fit, result))
            /\ IF result.raised
               THEN fc_pc' = "aborted" /\ forecasts' = {}
               ELSE /\ fc_pc' = "prophet"
                    /\ forecasts' = IF result.value # None
                                    THEN forecasts \cup {Slot("SARIMA", result.value)}
                                    ELSE forecasts
    /\ UNCHANGED <<fc_impl, available, sales_history, fc_i, sarima_forecast,
                   tier_vars, service_vars, sanitizer_vars, loader_vars, season_vars, requests, heuristic_vars, report_vars, aggregator_vars, analyze_vars, sandbox_vars>>

\* analyzer.py: prophet_forecast = self.forecasting_engine.forecast_prophet(medicine)
AnalyzerProphet ==
    /\ fc_impl = "analyzer"
    /\ fc_pc = "prophet"
    /\ \E fit \in FitOutcomes :
        LET result == forecast_prophet(sales_history[fc_i], available, fit)
        IN  /\ calls' = Append(calls, Call("Prophet", sales_history[fc_i], fit, result))
            /\ IF result.raised
               THEN fc_pc' = "aborted" /\ forecasts' = {} /\ UNCHANGED fc_i
               ELSE /\ forecasts' = IF result.value # None
                                    THEN forecasts \cup {Slot("Prophet", result.value)}
                                    ELSE forecasts
                    /\ NextMedicine
    /\ UNCHANGED <<fc_impl, available, sales_history, sarima_forecast,
                   tier_vars, service_vars, sanitizer_vars, loader_vars, season_vars, requests, heuristic_vars, report_vars, aggregator_vars, analyze_vars, sandbox_vars>>

\* Engine.py: try: sarima_result = get_timeseries_forecast_sarima(...) except: None;
\* the result stays in a local variable
EngineSarima ==
    /\ fc_impl = "Engine"
    /\ fc_pc = "sarima"
    /\ \E fit \in FitOutcomes :
        LET result == get_timeseries_forecast_sarima(sales_history[fc_i], fit)
        IN  /\ calls' = Append(calls, Call("SARIMA", sales_history[fc_i], fit, result))
            /\ sarima_forecast' = IF result.raised THEN None ELSE result.value
    /\ fc_pc' = "prophet"
    /\ UNCHANGED <<fc_impl, available, sales_history, fc_i, forecasts,
                   tier_vars, service_vars, sanitizer_vars, loader_vars, season_vars, requests, heuristic_vars, report_vars, aggregator_vars, analyze_vars, sandbox_vars>>

\* Engine.py: try: prophet_result = get_timeseries_forecast_prophet(...) except: None
EngineProphet ==
    /\ fc_impl = "Engine"
    /\ fc_pc = "prophet"
    /\ \E fit \in FitOutcomes :
        LET result == get_timeseries_forecast_prophet(sales_history[fc_i], fit)
        IN  calls' = Append(calls, Call("Prophet", sales_history[fc_i], fit, result))
    /\ NextMedicine
    /\ UNCHANGED <<fc_impl, available, sales_history, sarima_forecast, forecasts,
                   tier_vars, service_vars, sanitizer_vars, loader_vars, season_vars, requests, heuristic_vars, report_vars, aggregator_vars, analyze_vars, sandbox_vars>>

NextForecast ==
    \/ ProcessMedicineSarima
    \/ ProcessMedicineProphet
    \/ AnalyzerSarima
    \/ AnalyzerProphet
    \/ EngineSarima
    \/ EngineProphet

----------------------------------------------------------------------------
(* CSV loaders: Engine.load_sales_data, CSVLoader.load_csv_file and *)
(* SeasonalAnalysisEngine.load_sales_data                            *)

CSV_REQUIRED_COLUMNS ==
    {"date", "time", "invoice_id", "medicine_name", "generic_name",
     "brand", "manufacturer", "supplier", "dosage_form", "strength",
     "category", "prescription_required", "quantity", "unit_price"}

\* VALIDATION_RULES['critical_columns']
critical_columns == {"date", "medicine_name", "quantity", "unit_price"}

\* a file lacks no column, one column, or every column
MissingColumnSets ==
    {{}} \cup {{c} : c \in CSV_REQUIRED_COLUMNS} \cup {CSV_REQUIRED_COLUMNS}

\* what a loader hands back: a frame or None, and the validation errors with it
LoadResult(has_frame, has_columns, rows, errors) ==
    [has_frame |-> has_frame, has_columns |-> has_columns, rows |-> rows, errors |-> errors]

\* pd.api.types.is_numeric_dtype(df[col]) after read_csv: an empty column and a
\* column holding text are object columns
is_numeric_dtype(table, col) ==
    /\ table # <<>>
    /\ \A i \in 1..Len(table) :
           IF col = "quantity" THEN table[i].quantity.tag \in {"null", "num"}
           ELSE table[i].unit_price.tag \in {"null", "num"}

\* Engine.load_sales_data followed by clean_data, as run_complete_analysis calls them
engine_load_sales_data(missing, table) ==
    IF missing # {} THEN LoadResult(FALSE, FALSE, <<>>, {})
    ELSE IF table = <<>> THEN LoadResult(FALSE, FALSE, <<>>, {"ZeroDivisionError"})
    ELSE LoadResult(TRUE, TRUE, clean_data(with_index(table)), {})

\* FileValidator.validate_csv_file: the errors it collects
validate_csv_file(missing) ==
    (IF missing # {} THEN {"Missing required columns"} ELSE {}) \cup
    (IF missing \cap critical_columns # {} THEN {"Missing critical columns"} ELSE {})

\* DataValidator.validate_dataframe: the errors it collects
validate_dataframe(missing, table) ==
    (IF table = <<>> THEN {"DataFrame is empty"} ELSE {}) \cup
    (IF missing # {} THEN {"Missing required columns"} ELSE {}) \cup
    (IF "quantity" \notin missing /\ ~is_numeric_dtype(table, "quantity")
     THEN {"Column 'quantity' should be numeric"} ELSE {}) \cup
    (IF "unit_price" \notin missing /\ ~is_numeric_dtype(table, "unit_price")
     THEN {"Column 'unit_price' should be numeric"} ELSE {})

\* CSVLoader.load_csv_file
load_csv_file(missing, table) ==
    IF validate_csv_file(missing) # {}
    THEN LoadResult(FALSE, FALSE, <<>>, validate_csv_file(missing))
    ELSE IF validate_dataframe(missing, table) # {}
         THEN LoadResult(FALSE, FALSE, <<>>, validate_dataframe(missing, table))
         ELSE LoadResult(TRUE, TRUE, clean_dataframe(with_index(table)), {})

\* the columns SeasonalAnalysisEngine.load_sales_data reads outside a try of its own
columns_read == critical_columns \cup {"generic_name"}

\* SeasonalAnalysisEngine.load_sales_data: a KeyError ends in pd.DataFrame()
load_sales_data(missing, table) ==
    IF missing \cap columns_read # {} THEN LoadResult(TRUE, FALSE, <<>>, {})
    ELSE LET kept == cleaning_steps(with_index(table))
         IN  LoadResult(TRUE, TRUE,
                 [i \in 1..Len(kept) |->
                     [index |-> kept[i].index,
                      date |-> kept[i].date,
                      medicine_name |-> kept[i].medicine_name,
                      medicine_name_clean |-> clean_medicine_name(kept[i].medicine_name),
                      quantity |-> kept[i].quantity,
                      unit_price |-> kept[i].unit_price,
                      total_sales |-> NumCell(kept[i].quantity.v * kept[i].unit_price.v),
                      Season |-> get_season(month_of(kept[i].date))]],
                 {})

NotLoaded == LoadResult(FALSE, FALSE, <<>>, {"not loaded"})

LoaderIdle ==
    /\ csv_missing = {}
    /\ csv_rows = <<>>
    /\ load_pc = "file"
    /\ load_result = NotLoaded

\* Engine.py: sales_df = load_sales_data(file_path, REQUIRED_COLUMNS)
EngineLoadSalesData ==
    /\ load_pc = "file"
    /\ load_result' = engine_load_sales_data(csv_missing, csv_rows)
    /\ load_pc' = "Engine.load_sales_data"
    /\ UNCHANGED <<csv_missing, csv_rows, tier_vars, service_vars, sanitizer_vars, forecast_vars, season_vars, requests, heuristic_vars, report_vars, aggregator_vars, analyze_vars, sandbox_vars>>

\* data_loader.py: success, df, validation_info = self.csv_loader.load_csv_file(file_path)
LoadCsvFile ==
    /\ load_pc = "file"
    /\ load_result' = load_csv_file(csv_missing, csv_rows)
    /\ load_pc' = "load_csv_file"
    /\ UNCHANGED <<csv_missing, csv_rows, tier_vars, service_vars, sanitizer_vars, forecast_vars, season_vars, requests, heuristic_vars, report_vars, aggregator_vars, analyze_vars, sandbox_vars>>

\* routes/analysis.py: df = analysis_engine.load_sales_data()
LoadSalesData ==
    /\ load_pc = "file"
    /\ load_result' = load_sales_data(csv_missing, csv_rows)
    /\ load_pc' = "load_sales_data"
    /\ UNCHANGED <<csv_missing, csv_rows, tier_vars, service_vars, sanitizer_vars, forecast_vars, season_vars, requests, heuristic_vars, report_vars, aggregator_vars, analyze_vars, sandbox_vars>>

NextLoader ==
    \/ EngineLoadSalesData
    \/ LoadCsvFile
    \/ LoadSalesData

----------------------------------------------------------------------------
(* Season labelling: the month-to-season routines of the components *)

\* Engine.create_features.get_season
create_features_get_season(month) ==
    IF month \in {2, 3, 4, 5} THEN "Summer"
    ELSE IF month \in {6, 7, 8, 9} THEN "Monsoon"
    ELSE "Winter"

\* forecast.ForecastingEngine.get_season
forecast_get_season(month) ==
    IF month \in {2, 3, 4, 5} THEN "summer"
    ELSE IF month \in {6, 7, 8, 9} THEN "monsoon"
    ELSE "winter"

Unlabelled == [Engine |-> "", analysis_engine |-> "", utils |-> "", forecast |-> ""]

SeasonIdle ==
    /\ season_date = 0
    /\ season_labels = Unlabelled

\* Engine.py: df_features['Season'] = df_features['Month'].apply(get_season)
LabelByEngine ==
    /\ season_labels.Engine = ""
    /\ season_labels' =
           [season_labels EXCEPT !.Engine = create_features_get_season(Month(season_date))]
    /\ UNCHANGED <<season_date, tier_vars, service_vars, sanitizer_vars, forecast_vars, loader_vars, requests, heuristic_vars, report_vars, aggregator_vars, analyze_vars, sandbox_vars>>

\* analysis_engine.py: df_clean['Season'] = df_clean['Month'].apply(self.get_season)
LabelByAnalysisEngine ==
    /\ season_labels.analysis_engine = ""
    /\ season_labels' =
           [season_labels EXCEPT !.analysis_engine = get_season(Month(season_date))]
    /\ UNCHANGED <<season_date, tier_vars, service_vars, sanitizer_vars, forecast_vars, loader_vars, requests, heuristic_vars, report_vars, aggregator_vars, analyze_vars, sandbox_vars>>

\* data_loader.py: df_clean['season'] = df_clean['date'].apply(get_season_from_date)
LabelByDataLoader ==
    /\ season_labels.utils = ""
    /\ season_labels' =
           [season_labels EXCEPT !.utils = get_season_from_date(DateCell(season_date))]
    /\ UNCHANGED <<season_date, tier_vars, service_vars, sanitizer_vars, forecast_vars, loader_vars, requests, heuristic_vars, report_vars, aggregator_vars, analyze_vars, sandbox_vars>>

\* forecast.py: df['season'] = df['month'].apply(self.get_season)
LabelByForecast ==
    /\ season_labels.forecast = ""
    /\ season_labels' =
           [season_labels EXCEPT !.forecast = forecast_get_season(Month(season_date))]
    /\ UNCHANGED <<season_date, tier_vars, service_vars, sanitizer_vars, forecast_vars, loader_vars, requests, heuristic_vars, report_vars, aggregator_vars, analyze_vars, sandbox_vars>>

NextSeason ==
    \/ LabelByEngine
    \/ LabelByAnalysisEngine
    \/ LabelByDataLoader
    \/ LabelByForecast

----------------------------------------------------------------------------
(* Concurrent requests on the shared analysis_engine instance *)

Callers == 1..MaxCallers

\* the columns of the frame load_sales_data returns that the computations read
LoadedColumns ==
    {"date", "medicine_name_clean", "quantity", "unit_price", "total_sales",
     "invoice_id", "Season"}

Table(columns, rows) == [columns |-> columns, rows |-> rows]

NoTable == Table({}, <<>>)

NoResult == [kind |-> "none", value |-> <<>>]

IdleRequest ==
    [pc |-> "idle", op |-> "none", season |-> "Summer",
     given |-> NoTable, df |-> NoTable, result |-> NoResult]

\* the five placeholder rows of get_seasonal_performers
mock_performers ==
    <<[medicine |-> "CROCIN COLD & FLU SYRUP", summer |-> 120, monsoon |-> 180,
       winter |-> 250, total |-> 550],
      [medicine |-> "VICKS ACTION 500 SYRUP", summer |-> 100, monsoon |-> 150,
       winter |-> 200, total |-> 450],
      [medicine |-> "TIXYLIX COUGH SYRUP", summer |-> 80, monsoon |-> 120,
       winter |-> 180, total |-> 380],
      [medicine |-> "PARACETAMOL 500MG", summer |-> 200, monsoon |-> 220,
       winter |-> 180, total |-> 600],
      [medicine |-> "CETIRIZINE 10MG", summer |-> 150, monsoon |-> 200,
       winter |-> 100, total |-> 450]>>

\* df['season'] = df['date'].dt.month.apply(self.get_season): a column written
\* into the frame the caller passed
assign_season(df) ==
    Table(df.columns \cup {"season"},
          [i \in 1..Len(df.rows) |->
              [date |-> df.rows[i].date,
               medicine_name_clean |-> df.rows[i].medicine_name_clean,
               quantity |-> df.rows[i].quantity,
               unit_price |-> df.rows[i].unit_price,
               total_sales |-> df.rows[i].total_sales,
               invoice_id |-> df.rows[i].invoice_id,
               Season |-> df.rows[i].Season,
               season |-> get_season(Month(df.rows[i].date))]])

\* get_seasonal_performers on a frame without a quantity_sold column: the groupby
\* raises KeyError and the except branch returns []
get_seasonal_performers(df) ==
    IF df.rows = <<>> THEN mock_performers ELSE <<>>

CallersIdle == requests = [r \in Callers |-> IdleRequest]

\* a route handler starts: df = analysis_engine.load_sales_data(), then the call
CallEngine ==
    \E r \in Callers, op \in {"get_seasonal_recommendations", "get_seasonal_performers"},
       season \in SeasonParams :
        /\ requests[r].pc = "idle"
        /\ requests' = [requests EXCEPT ![r] =
               [pc |-> "called", op |-> op, season |-> season,
                given |-> Table(LoadedColumns, sales_df),
                df |-> Table(LoadedColumns, sales_df),
                result |-> NoResult]]
        /\ UNCHANGED <<tier_vars, service_vars, sanitizer_vars, forecast_vars, loader_vars,
                       season_vars, heuristic_vars, report_vars, aggregator_vars, analyze_vars, sandbox_vars>>

\* get_seasonal_recommendations: everything it builds is a new local frame
RecommendationsCompute ==
    \E r \in Callers, ties \in TieOrders :
        /\ requests[r].pc = "called"
        /\ requests[r].op = "get_seasonal_recommendations"
        /\ requests' = [requests EXCEPT
               ![r].pc = "done",
               ![r].result =
                   [kind |-> "recommendations",
                    value |-> get_seasonal_recommendations(requests[r].df.rows,
                                                           requests[r].season, 15, ties)]]
        /\ UNCHANGED <<tier_vars, service_vars, sanitizer_vars, forecast_vars, loader_vars,
                       season_vars, heuristic_vars, report_vars, aggregator_vars, analyze_vars, sandbox_vars>>

\* get_seasonal_performers, first statement: mock rows for an empty frame, else
\* the season column is written into the caller's frame
PerformersAssignSeason ==
    \E r \in Callers :
        /\ requests[r].pc = "called"
        /\ requests[r].op = "get_seasonal_performers"
        /\ requests' = [requests EXCEPT ![r] =
               IF requests[r].df.rows = <<>>
               THEN [requests[r] EXCEPT
                        !.pc = "done",
                        !.result = [kind |-> "performers",
                                    value |-> get_seasonal_performers(requests[r].df)]]
               ELSE [requests[r] EXCEPT
                        !.pc = "labelled",
                        !.df = assign_season(requests[r].df)]]
        /\ UNCHANGED <<tier_vars, service_vars, sanitizer_vars, forecast_vars, loader_vars,
                       season_vars, heuristic_vars, report_vars, aggregator_vars, analyze_vars, sandbox_vars>>

\* get_seasonal_performers, the rest: group, pivot, format
PerformersGroup ==
    \E r \in Callers :
        /\ requests[r].pc = "labelled"
        /\ requests' = [requests EXCEPT
               ![r].pc = "done",
               ![r].result = [kind |-> "performers",
                              value |-> get_seasonal_performers(requests[r].df)]]
        /\ UNCHANGED <<tier_vars, service_vars, sanitizer_vars, forecast_vars, loader_vars,
                       season_vars, heuristic_vars, report_vars, aggregator_vars, analyze_vars, sandbox_vars>>

NextCallers ==
    \/ CallEngine
    \/ RecommendationsCompute
    \/ PerformersAssignSeason
    \/ PerformersGroup

----------------------------------------------------------------------------
(* Heuristic recommendation engine: Engine.get_heuristic_recommendations and *)
(* DataProcessor.apply_safety_buffer                                          *)

FeaturedQuantities == {10, 20, 100}
FeaturedDates == {Mar01, Mar15, Nov20, NaTDay}  \* NaT: a date to_datetime could not parse
FeaturedKeys == {"ASPIRIN", "PARA 500"}
TargetSeasons == {"Summer", "Winter"}
HeuristicBuffers == {0, 15}        \* buffer=0.0 and the default buffer=0.15

\* rows of the frame create_features returns
FeaturedRows ==
    {[date |-> dt, medicine_name_clean |-> k, quantity |-> q,
      unit_price |-> 5, total_sales |-> q * 5, invoice_id |-> 1,
      Season |-> create_features_get_season(dt_month(dt))] :
        dt \in FeaturedDates, k \in FeaturedKeys, q \in FeaturedQuantities}

RECURSIVE FeaturedFrames(_)
FeaturedFrames(n) ==
    IF n = 0 THEN {<<>>}
    ELSE LET shorter == FeaturedFrames(n - 1)
         IN  shorter \cup
             {Append(f, r) : f \in {g \in shorter : Len(g) = n - 1}, r \in FeaturedRows}

\* DataProcessor.apply_safety_buffer
apply_safety_buffer(quantity, buffer_percentage) ==
    double_product_int(quantity, buffer_percentage)

\* Engine.get_heuristic_recommendations; an empty DataFrame when the season has no row
get_heuristic_recommendations(df, target_season, buffer, ties) ==
    LET season_data == SelectSeq(df, LAMBDA r : r.Season = target_season)
    IN  IF season_data = <<>> THEN <<>>
        ELSE LET grouped == groupby_medicine(season_data)
                 days == days_in_season(season_data)
                 sorted == sort_values_desc(grouped, ties)
                 n == Len(sorted)
                 daily == [i \in 1..n |-> daily_avg_sales(sorted[i].last_season_sales, days)]
                 threshold4 == quantile75_times4(daily)
                 rowsOf(name) == SelectSeq(season_data,
                                           LAMBDA r : r.medicine_name_clean = name)
             IN  [i \in 1..n |->
                     [rank |-> i,
                      medicine_name |-> sorted[i].medicine_name,
                      last_season_sales |-> sorted[i].last_season_sales,
                      suggested_stock_quantity |->
                          double_product_int(sorted[i].last_season_sales, buffer),
                      daily_avg_sales |-> daily[i],
                      total_revenue |-> sorted[i].total_revenue,
                      \* unit_price mean, as the pair (sum, count)
                      avg_unit_price |->
                          <<Sum([j \in 1..Len(rowsOf(sorted[i].medicine_name)) |->
                                    rowsOf(sorted[i].medicine_name)[j].unit_price]),
                            Len(rowsOf(sorted[i].medicine_name))>>,
                      unique_orders |-> sorted[i].unique_orders,
                      is_fast_mover |-> at_or_above(daily[i], threshold4)]]

\* SEASONS[season]['duration_days'], the same for the three seasons
duration_days == 120

\* the CASE over strftime('%m', date) in the analyzer's query
sql_season(date) ==
    IF dt_month(date) \in {2, 3, 4, 5} THEN "Summer"
    ELSE IF dt_month(date) \in {6, 7, 8, 9} THEN "Monsoon"
    ELSE "Winter"

\* analyzer.RecommendationEngine.generate_heuristic_recommendations over the rows of
\* the sales table; ORDER BY leaves rows with equal sums in an unspecified order
generate_heuristic_recommendations(sales, target_season, buffer, ties) ==
    LET season_data == SelectSeq(sales, LAMBDA r : sql_season(r.date) = target_season)
    IN  IF season_data = <<>> THEN <<>>
        ELSE LET df == sort_values_desc(groupby_medicine(season_data), ties)
                 n == Len(df)
                 daily == [i \in 1..n |->
                              RoundHundredths(df[i].last_season_sales, duration_days)]
                 threshold4 == quantile75_times4(daily)
                 rowsOf(name) == SelectSeq(season_data,
                                           LAMBDA r : r.medicine_name_clean = name)
             IN  [i \in 1..n |->
                     [medicine_name |-> df[i].medicine_name,
                      last_season_sales |-> df[i].last_season_sales,
                      total_revenue |-> df[i].total_revenue,
                      unique_orders |-> df[i].unique_orders,
                      avg_unit_price |->
                          <<Sum([j \in 1..Len(rowsOf(df[i].medicine_name)) |->
                                    rowsOf(df[i].medicine_name)[j].unit_price]),
                            Len(rowsOf(df[i].medicine_name))>>,
                      suggested_stock_quantity |->
                          double_product_int(df[i].last_season_sales, buffer),
                      daily_avg_sales |-> daily[i],
                      rank |-> i,
                      is_fast_mover |-> at_or_above(daily[i], threshold4)]]

NotRun == [routine |-> "none"]

HeuristicIdle ==
    /\ featured_df = <<>>
    /\ heuristic = NotRun

\* Engine.py: recommendations = get_heuristic_recommendations(sales_df_featured,
\* target_season, buffer)
GetHeuristicRecommendations ==
    \E target_season \in TargetSeasons, buffer \in HeuristicBuffers, ties \in TieOrders :
        /\ heuristic = NotRun
        /\ heuristic' =
               [routine |-> "get_heuristic_recommendations",
                target_season |-> target_season, buffer |-> buffer,
                recommendations |->
                    get_heuristic_recommendations(featured_df, target_season, buffer, ties)]
        /\ UNCHANGED <<featured_df, tier_vars, service_vars, sanitizer_vars, forecast_vars,
                       loader_vars, season_vars, requests, report_vars, aggregator_vars, analyze_vars, sandbox_vars>>

\* analyzer.py: recommendations =
\* self.recommendation_engine.generate_heuristic_recommendations(target_season, buffer)
GenerateHeuristicRecommendations ==
    \E target_season \in TargetSeasons, buffer \in HeuristicBuffers, ties \in TieOrders :
        /\ heuristic = NotRun
        /\ heuristic' =
               [routine |-> "generate_heuristic_recommendations",
                target_season |-> target_season, buffer |-> buffer,
                recommendations |->
                    generate_heuristic_recommendations(featured_df, target_season, buffer, ties)]
        /\ UNCHANGED <<featured_df, tier_vars, service_vars, sanitizer_vars, forecast_vars,
                       loader_vars, season_vars, requests, report_vars, aggregator_vars, analyze_vars, sandbox_vars>>

\* DataProcessor.apply_safety_buffer(quantity, buffer_percentage) on a sold quantity
ApplySafetyBuffer ==
    \E buffer \in HeuristicBuffers :
        /\ heuristic = NotRun
        /\ heuristic' =
               [routine |-> "apply_safety_buffer",
                quantity |-> Sum(ColQuantity(featured_df)), buffer |-> buffer,
                buffered |-> apply_safety_buffer(Sum(ColQuantity(featured_df)), buffer)]
        /\ UNCHANGED <<featured_df, tier_vars, service_vars, sanitizer_vars, forecast_vars,
                       loader_vars, season_vars, requests, report_vars, aggregator_vars, analyze_vars, sandbox_vars>>

\* forecast_top_n of run_complete_analysis (3 by default) and ?top_n= of the route
ForecastTopN == {0, 1, 3}

\* recommendations.head(forecast_top_n)['medicine_name'].tolist(), nothing when
\* forecast_top_n is 0 or there is no recommendation
top_medicines(recommendations, forecast_top_n) ==
    IF forecast_top_n > 0 /\ recommendations # <<>>
    THEN [i \in 1..Len(head(recommendations, forecast_top_n)) |->
             recommendations[i].medicine_name]
    ELSE <<>>

\* get_advanced_analytics: top_n between 3 and 10, then SUM(quantity_sold) per
\* medicine over the whole Sales table ORDER BY total_quantity DESC LIMIT top_n
top_medicines_query(sales, top_n, ties) ==
    IF sales = <<>> THEN <<>>
    ELSE LET ranked == sort_values_desc(groupby_medicine(sales), ties)
             limit == Max(Min(top_n, 10), 3)
         IN  [i \in 1..Len(head(ranked, limit)) |-> ranked[i].medicine_name]

Selection(routine, target_season, forecast_top_n, selected) ==
    [routine |-> routine, target_season |-> target_season,
     forecast_top_n |-> forecast_top_n, top_medicines |-> selected]

\* Engine.run_complete_analysis, step 8: the medicines handed to the forecasts
EngineSelectTopMedicines ==
    \E target_season \in TargetSeasons, forecast_top_n \in ForecastTopN, ties \in TieOrders :
        /\ heuristic = NotRun
        /\ heuristic' =
               Selection("Engine.run_complete_analysis", target_season, forecast_top_n,
                         top_medicines(get_heuristic_recommendations(
                                           featured_df, target_season, 15, ties),
                                       forecast_top_n))
        /\ UNCHANGED <<featured_df, tier_vars, service_vars, sanitizer_vars, forecast_vars,
                       loader_vars, season_vars, requests, report_vars, aggregator_vars, analyze_vars, sandbox_vars>>

\* AnalysisOrchestrator.run_complete_analysis, step 3
AnalyzerSelectTopMedicines ==
    \E target_season \in TargetSeasons, forecast_top_n \in ForecastTopN, ties \in TieOrders :
        /\ heuristic = NotRun
        /\ heuristic' =
               Selection("AnalysisOrchestrator.run_complete_analysis", target_season,
                         forecast_top_n,
                         top_medicines(generate_heuristic_recommendations(
                                           featured_df, target_season, 15, ties),
                                       forecast_top_n))
        /\ UNCHANGED <<featured_df, tier_vars, service_vars, sanitizer_vars, forecast_vars,
                       loader_vars, season_vars, requests, report_vars, aggregator_vars, analyze_vars, sandbox_vars>>

\* GET /api/analysis/advanced-analytics?top_n=
AdvancedSelectTopMedicines ==
    \E top_n \in ForecastTopN, ties \in TieOrders :
        /\ heuristic = NotRun
        /\ heuristic' =
               Selection("get_advanced_analytics", "", Max(Min(top_n, 10), 3),
                         top_medicines_query(featured_df, top_n, ties))
        /\ UNCHANGED <<featured_df, tier_vars, service_vars, sanitizer_vars, forecast_vars,
                       loader_vars, season_vars, requests, report_vars, aggregator_vars, analyze_vars, sandbox_vars>>

NextHeuristic ==
    \/ GetHeuristicRecommendations
    \/ GenerateHeuristicRecommendations
    \/ ApplySafetyBuffer
    \/ EngineSelectTopMedicines
    \/ AnalyzerSelectTopMedicines
    \/ AdvancedSelectTopMedicines

----------------------------------------------------------------------------
(* Output files: Engine.generate_output_file and the ordering calendars *)

\* the columns the report reads of the recommendation sets
\* get_heuristic_recommendations returns under the default buffer, for medicines
\* sold at price 5 on one day of the season (days_in_season 90)
ReportSets ==
    {[i \in 1..Len(s) |->
         [rank |-> i,
          last_season_sales |-> s[i],
          suggested_stock_quantity |-> double_product_int(s[i], 15),
          total_revenue |-> 5 * s[i],
          daily_avg_sales |-> daily_avg_sales(s[i], 90),
          is_fast_mover |->
              at_or_above(daily_avg_sales(s[i], 90),
                          quantile75_times4([j \in 1..Len(s) |->
                                                daily_avg_sales(s[j], 90)]))]] :
        s \in SalesLists(MaxMeds)}

\* one row of the ordering schedule: the medicines of the window (the local
\* critical_items, high_priority, ...), their count, int(quantity sum * share) and
\* float(cost sum * share) in paise, share in percent
schedule_row(week, items, share) ==
    [week |-> week,
     medicines |-> [i \in 1..Len(items) |-> items[i].rank],
     medicines_count |-> Len(items),
     total_quantity |->
         (Sum([i \in 1..Len(items) |-> items[i].suggested_stock_quantity]) * share) \div 100,
     estimated_cost_paise |->
         Sum([i \in 1..Len(items) |-> items[i].total_revenue]) * share]

\* Engine.generate_ordering_calendar
generate_ordering_calendar(recommendations) ==
    LET critical_items == head(SelectSeq(recommendations, LAMBDA r : r.is_fast_mover), 10)
        high_priority == iloc(recommendations, 10, 30)
        medium_priority == iloc(recommendations, 30, 60)
    IN  <<schedule_row("1-2", critical_items, 100),
          schedule_row("3-4", high_priority, 100),
          schedule_row("5-8", medium_priority, 100),
          schedule_row("9-12", critical_items, 50)>>

\* the ordering_calendar of get_detailed_seasonal_analysis over sorted_medicines:
\* order_quantity = int(total_quantity * 1.15), estimated_cost = order_quantity *
\* purchase_price (5 here); keys period, medicines, quantity, budget
detailed_ordering_calendar(sorted_medicines) ==
    LET n == Len(sorted_medicines)
        medicine_info == [i \in 1..n |->
                             [rank |-> sorted_medicines[i].rank,
                              suggested_stock_quantity |->
                                  double_product_int(sorted_medicines[i].last_season_sales, 15),
                              total_revenue |->
                                  5 * double_product_int(sorted_medicines[i].last_season_sales, 15),
                              priority |-> detailed_priority(i - 1, n)]]
        breakdown(level) == SelectSeq(medicine_info, LAMBDA m : m.priority = level)
        critical_items == head(breakdown("critical"), 10)
    IN  <<schedule_row("1-2", critical_items, 100),
          schedule_row("3-4", head(breakdown("high"), 20), 100),
          schedule_row("5-8", head(breakdown("medium"), 26), 100),
          schedule_row("9-12", critical_items, 100)>>

\* what a report routine leaves behind: the tiers it computed, the calendar, the
\* top_20_must_order entries of the JSON file and the rows of the CSV file
Output(routine, tiers, calendar, top_20, json_written, csv, csv_written, raised) ==
    [routine |-> routine, prioritized |-> tiers, ordering_calendar |-> calendar,
     top_20_must_order |-> top_20, json_written |-> json_written,
     csv |-> csv, csv_written |-> csv_written, raised |-> raised]

NoOutput == Output("none", NoDict, <<>>, <<>>, FALSE, <<>>, FALSE, "")

\* Engine.generate_output_file: nothing for an empty set; else the JSON file, then the
\* CSV file unless a tier is empty, where priority_df['action'].iloc[0] raises
\* IndexError before to_csv
generate_output_file(recommendations) ==
    IF recommendations = <<>>
    THEN Output("generate_output_file", NoDict, <<>>, <<>>, FALSE, <<>>, FALSE, "")
    ELSE LET tiers == categorize_medicines_by_priority(recommendations)
             calendar == generate_ordering_calendar(recommendations)
             top_20 == head(recommendations, 20)
             must_order == [i \in 1..Len(top_20) |->
                               [rank |-> top_20[i].rank,
                                priority_level |->
                                    IF top_20[i].rank <= Len(tiers.CRITICAL)
                                    THEN "CRITICAL" ELSE "HIGH"]]
             level_of(rank) ==
                 IF \E k \in 1..4 : \E j \in 1..Len(tiers[Levels[k]]) :
                        tiers[Levels[k]][j].rank = rank
                 THEN Levels[CHOOSE k \in 1..4 : \E j \in 1..Len(tiers[Levels[k]]) :
                                 tiers[Levels[k]][j].rank = rank]
                 ELSE "LOW"
             with_priority == [i \in 1..Len(recommendations) |->
                                  [rank |-> recommendations[i].rank,
                                   priority_level |-> level_of(recommendations[i].rank)]]
         IN  IF \E k \in 1..4 : tiers[Levels[k]] = <<>>
             THEN Output("generate_output_file", tiers, calendar, must_order, TRUE,
                         <<>>, FALSE, "IndexError")
             ELSE Output("generate_output_file", tiers, calendar, must_order, TRUE,
                         with_priority, TRUE, "")

ReportIdle ==
    /\ report_df = <<>>
    /\ report = NoOutput

\* Engine.run_complete_analysis: generate_output_file(recommendations, target_season)
GenerateOutputFile ==
    /\ report = NoOutput
    /\ report' = generate_output_file(report_df)
    /\ UNCHANGED <<report_df, tier_vars, service_vars, sanitizer_vars, forecast_vars,
                   loader_vars, season_vars, requests, heuristic_vars, aggregator_vars, analyze_vars, sandbox_vars>>

\* GET /api/analysis/detailed-seasonal-analysis/<season>: the calendar of the response
DetailedOrderingCalendar ==
    /\ report = NoOutput
    /\ report' = Output("get_detailed_seasonal_analysis", NoDict,
                        detailed_ordering_calendar(report_df), <<>>, FALSE, <<>>, FALSE, "")
    /\ UNCHANGED <<report_df, tier_vars, service_vars, sanitizer_vars, forecast_vars,
                   loader_vars, season_vars, requests, heuristic_vars, aggregator_vars, analyze_vars, sandbox_vars>>

NextReport ==
    \/ GenerateOutputFile
    \/ DetailedOrderingCalendar

----------------------------------------------------------------------------
(* Seasonal aggregation by medicine name, in memory and through the database *)

\* raw medicine names that differ in case, outer blanks or inner whitespace only,
\* and one that is another medicine
RawNames ==
    {<<"p">>, <<" ", "P", " ">>, <<"p", " ", "p">>, <<"p", " ", " ", "p">>}

NamedDates == {Mar01, Nov20}

\* rows as clean_data and _clean_dataframe leave them: medicine_name untouched,
\* medicine_name_clean beside it
NamedRows ==
    {[date |-> dt, medicine_name |-> name,
      medicine_name_clean |-> clean_medicine_name(StrCell(name)).v,
      quantity |-> 1] : dt \in NamedDates, name \in RawNames}

RECURSIVE NamedFrames(_)
NamedFrames(n) ==
    IF n = 0 THEN {<<>>}
    ELSE LET shorter == NamedFrames(n - 1)
         IN  shorter \cup
             {Append(f, r) : f \in {g \in shorter : Len(g) = n - 1}, r \in NamedRows}

\* one aggregate per value of the grouping column
SeasonalAggregates(rows, key(_)) ==
    {[medicine_name |-> k,
      last_season_sales |-> Sum(ColQuantity(SelectSeq(rows, LAMBDA r : key(r) = k)))] :
        k \in {key(rows[i]) : i \in 1..Len(rows)}}

\* Engine.get_heuristic_recommendations: df[df['Season'] == target_season]
\*   .groupby('medicine_name_clean')
group_in_memory(df, target_season) ==
    SeasonalAggregates(
        SelectSeq(df, LAMBDA r : create_features_get_season(dt_month(r.date)) = target_season),
        LAMBDA r : r.medicine_name_clean)

\* DatabaseLoader.load_sales_data: DELETE FROM sales, then one row per row of df with
\* row['medicine_name'] in the medicine_name column
insert_sales(df) ==
    [i \in 1..Len(df) |->
        [date |-> df[i].date, medicine_name |-> df[i].medicine_name,
         quantity |-> df[i].quantity]]

\* RecommendationEngine.generate_heuristic_recommendations: SELECT ... FROM sales
\* WHERE <season of date> = ? GROUP BY medicine_name
group_in_database(sales, target_season) ==
    SeasonalAggregates(
        SelectSeq(sales, LAMBDA r : sql_season(r.date) = target_season),
        LAMBDA r : r.medicine_name)

NotAggregated == [path |-> "none", target_season |-> "", rows |-> {}]

AggregatorIdle ==
    /\ named_df = <<>>
    /\ sales_table = <<>>
    /\ aggregates = NotAggregated

\* Engine.py: get_heuristic_recommendations(sales_df_featured, target_season)
AggregateInMemory ==
    \E target_season \in TargetSeasons :
        /\ aggregates = NotAggregated
        /\ aggregates' = [path |-> "memory", target_season |-> target_season,
                          rows |-> group_in_memory(named_df, target_season)]
        /\ UNCHANGED <<named_df, sales_table, tier_vars, service_vars, sanitizer_vars,
                       forecast_vars, loader_vars, season_vars, requests, heuristic_vars,
                       report_vars, analyze_vars, sandbox_vars>>

\* data_loader.py: DatabaseLoader.load_sales_data(df_cleaned)
DatabaseLoadSalesData ==
    /\ aggregates = NotAggregated
    /\ sales_table' = insert_sales(named_df)
    /\ sales_table' # sales_table
    /\ UNCHANGED <<named_df, aggregates, tier_vars, service_vars, sanitizer_vars,
                   forecast_vars, loader_vars, season_vars, requests, heuristic_vars,
                   report_vars, analyze_vars, sandbox_vars>>

\* analyzer.py: generate_heuristic_recommendations(target_season) over the database
AggregateInDatabase ==
    \E target_season \in TargetSeasons :
        /\ aggregates = NotAggregated
        /\ sales_table # <<>>
        /\ aggregates' = [path |-> "database", target_season |-> target_season,
                          rows |-> group_in_database(sales_table, target_season)]
        /\ UNCHANGED <<named_df, sales_table, tier_vars, service_vars, sanitizer_vars,
                       forecast_vars, loader_vars, season_vars, requests, heuristic_vars,
                       report_vars, analyze_vars, sandbox_vars>>

NextAggregator ==
    \/ AggregateInMemory
    \/ DatabaseLoadSalesData
    \/ AggregateInDatabase

----------------------------------------------------------------------------
(* POST /analyze and the status routes: routes/upload.py, routes/results.py *)

Clients == 1..MaxClients

NoResults == 0     \* 'results': None; the results of a run are named by its request
NoError == ""      \* 'error': None

\* the dictionary both modules start with
InitialStatus ==
    [is_running |-> FALSE, progress |-> 0, current_step |-> "",
     results |-> NoResults, error |-> NoError]

\* analysis_status.update({...}) that opens a run
status_started(status) ==
    [status EXCEPT !.is_running = TRUE, !.progress = 0, !.current_step = "Initializing",
                   !.results = NoResults, !.error = NoError]

\* analysis_status['current_step'] = ...; analysis_status['progress'] = ...
status_step(status, current_step, progress) ==
    [status EXCEPT !.current_step = current_step, !.progress = progress]

\* the failure update without its is_running entry
status_failed_keeps_running(status, error) ==
    [status EXCEPT !.error = error]

\* analysis_status.update({'is_running': False, 'error': ..., 'completed_at': ...})
status_failed(status, error) ==
    [status EXCEPT !.is_running = FALSE, !.error = error]

\* the update after generate_output_files
status_completed(status, results) ==
    [status EXCEPT !.is_running = FALSE, !.progress = 100, !.current_step = "Completed",
                   !.results = results, !.error = NoError]

\* what a call inside the try block can do
CallOutcomes == {"ok", "failed", "raised"}

NoGet == [kind |-> "none", code |-> 0, is_running |-> FALSE, progress |-> 0,
          results |-> NoResults]

AnalyzeIdle ==
    /\ analysis_status = InitialStatus
    /\ results_status = InitialStatus
    /\ analyze_pc = [r \in Clients |-> "idle"]
    /\ http = [r \in Clients |-> 0]
    /\ get_response = NoGet

\* a request thread leaves trigger_analysis with a status code
Return(r, code) ==
    /\ analyze_pc' = [analyze_pc EXCEPT ![r] = "idle"]
    /\ http' = [http EXCEPT ![r] = code]

\* a request thread moves on inside trigger_analysis
Goto(r, pc) ==
    /\ analyze_pc' = [analyze_pc EXCEPT ![r] = pc]
    /\ UNCHANGED http

\* one stage of the try block: the step and progress are written, the call is made,
\* and a False result or an exception ends the run with is_running False
Stage(r, pc, current_step, progress, error, next) ==
    /\ analyze_pc[r] = pc
    /\ \E outcome \in CallOutcomes :
          LET stepped == status_step(analysis_status, current_step, progress)
          IN  \/ /\ outcome = "ok"
                 /\ analysis_status' = stepped
                 /\ Goto(r, next)
              \/ /\ outcome = "failed"
                 /\ analysis_status' = status_failed(stepped, error)
                 /\ Return(r, 500)
              \/ /\ outcome = "raised"
                 /\ analysis_status' = status_failed(stepped, "raised")
                 /\ Return(r, 500)
    /\ UNCHANGED <<results_status, get_response, tier_vars, service_vars, sanitizer_vars,
                   forecast_vars, loader_vars, season_vars, requests, heuristic_vars,
                   report_vars, aggregator_vars, sandbox_vars>>

\* a client sends POST /api/analyze; Flask serves each request on its own thread
PostAnalyze(r) ==
    /\ analyze_pc[r] = "idle"
    /\ analyze_pc' = [analyze_pc EXCEPT ![r] = "check"]
    /\ http' = [http EXCEPT ![r] = 0]
    /\ UNCHANGED <<analysis_status, results_status, get_response, tier_vars, service_vars,
                   sanitizer_vars, forecast_vars, loader_vars, season_vars, requests,
                   heuristic_vars, report_vars, aggregator_vars, sandbox_vars>>

\* upload.py 144-149: if analysis_status['is_running']: return ..., 409
CheckRunning(r) ==
    /\ analyze_pc[r] = "check"
    /\ IF analysis_status.is_running THEN Return(r, 409) ELSE Goto(r, "validate")
    /\ UNCHANGED <<analysis_status, results_status, get_response, tier_vars, service_vars,
                   sanitizer_vars, forecast_vars, loader_vars, season_vars, requests,
                   heuristic_vars, report_vars, aggregator_vars, sandbox_vars>>

\* upload.py 151-191: the body is read and validated, the file is looked up, and the
\* status is set to running
StartRun(r) ==
    /\ analyze_pc[r] = "validate"
    /\ \/ /\ \E code \in {400, 404} : Return(r, code)
          /\ UNCHANGED analysis_status
       \/ /\ analysis_status' = status_started(analysis_status)
          /\ Goto(r, "init_db")
    /\ UNCHANGED <<results_status, get_response, tier_vars, service_vars, sanitizer_vars,
                   forecast_vars, loader_vars, season_vars, requests, heuristic_vars,
                   report_vars, aggregator_vars, sandbox_vars>>

\* upload.py 199-213
InitializeDatabaseSchema(r) ==
    Stage(r, "init_db", "Initializing database", 10, "Database initialization failed", "load")

\* upload.py 215-232
LoadCsvData(r) ==
    Stage(r, "load", "Loading CSV data", 30, "Data loading failed", "analysis")

\* upload.py 234-251
RunAnalysis(r) ==
    Stage(r, "analysis", "Running analysis", 60, "Analysis failed", "save")

\* upload.py 253-268 and the except block 288-299: generate_output_files returns or
\* raises
SaveResults(r) ==
    /\ analyze_pc[r] = "save"
    /\ \E outcome \in {"ok", "raised"} :
          LET stepped == status_step(analysis_status, "Saving results", 90)
          IN  IF outcome = "ok"
              THEN /\ analysis_status' = status_completed(stepped, r)
                   /\ Return(r, 200)
              ELSE /\ analysis_status' = status_failed(stepped, "raised")
                   /\ Return(r, 500)
    /\ UNCHANGED <<results_status, get_response, tier_vars, service_vars, sanitizer_vars,
                   forecast_vars, loader_vars, season_vars, requests, heuristic_vars,
                   report_vars, aggregator_vars, sandbox_vars>>

\* results.py 71-86: GET /api/analysis/status reads the analysis_status of results.py
GetAnalysisStatus ==
    /\ get_response' = [kind |-> "status", code |-> 200,
                        is_running |-> results_status.is_running,
                        progress |-> results_status.progress,
                        results |-> NoResults]
    /\ UNCHANGED <<analysis_status, results_status, analyze_pc, http, tier_vars,
                   service_vars, sanitizer_vars, forecast_vars, loader_vars, season_vars,
                   requests, heuristic_vars, report_vars, aggregator_vars, sandbox_vars>>

\* results.py 89-108: GET /api/analysis/results
GetAnalysisResults ==
    /\ get_response' =
          IF results_status.results = NoResults
          THEN [kind |-> "results", code |-> 404, is_running |-> FALSE, progress |-> 0,
                results |-> NoResults]
          ELSE [kind |-> "results", code |-> 200, is_running |-> FALSE, progress |-> 0,
                results |-> results_status.results]
    /\ UNCHANGED <<analysis_status, results_status, analyze_pc, http, tier_vars,
                   service_vars, sanitizer_vars, forecast_vars, loader_vars, season_vars,
                   requests, heuristic_vars, report_vars, aggregator_vars, sandbox_vars>>

\* the steps of one request thread once the request has arrived
Thread(r) ==
    \/ CheckRunning(r)
    \/ StartRun(r)
    \/ InitializeDatabaseSchema(r)
    \/ LoadCsvData(r)
    \/ RunAnalysis(r)
    \/ SaveResults(r)

NextAnalyze ==
    \/ \E r \in Clients : PostAnalyze(r)
    \/ \E r \in Clients : CheckRunning(r)
    \/ \E r \in Clients : StartRun(r)
    \/ \E r \in Clients : InitializeDatabaseSchema(r)
    \/ \E r \in Clients : LoadCsvData(r)
    \/ \E r \in Clients : RunAnalysis(r)
    \/ \E r \in Clients : SaveResults(r)
    \/ GetAnalysisStatus
    \/ GetAnalysisResults

----------------------------------------------------------------------------
(* The main and the temporary database: models/database_state.py, load_csv_data *)

\* DatabaseStateManager.__init__: the backup path is the main path
main_db_path == "pharmacy_backup.db"
temp_db_path == "temp_upload.db"
backup_db_path == "pharmacy_backup.db"

DbPaths == {main_db_path, temp_db_path, backup_db_path}

\* what a path holds: no file, a database without sales rows, or the sales rows of
\* one of the CSV files
Absent == 0
EmptyDb == 1
CsvFiles == 2..(MaxCsv + 1)
DbContents == {Absent, EmptyDb} \cup CsvFiles

NoPath == ""       \* database_path = None
NoFile == 0        \* _current_upload_file = None

\* shutil.copy2 without the test for one and the same file
copy2_overwrites(files, src, dst) ==
    [raised |-> FALSE, files |-> [files EXCEPT ![dst] = files[src]]]

\* shutil.copy2(src, dst): SameFileError when src and dst are the same file
copy2(files, src, dst) ==
    IF src = dst
    THEN [raised |-> TRUE, files |-> files]
    ELSE [raised |-> FALSE, files |-> [files EXCEPT ![dst] = files[src]]]

\* sqlite3.connect(path) creates the file when there is none
connect(files, path) ==
    [files EXCEPT ![path] = IF @ = Absent THEN EmptyDb ELSE @]

\* Path.unlink()
unlink(files, path) == [files EXCEPT ![path] = Absent]

\* models.py: def initialize_database_schema() -> bool takes no argument
initialize_database_schema(args) ==
    IF Len(args) = 0 THEN "called" ELSE "TypeError"

\* from database import DatabaseManager: what the name resolves to is left to the
\* module search path of the process
ImportOutcomes == {"ImportError", "resolved"}

\* load_data_from_csv: the CSV is rejected, the database load fails and is not
\* committed, or the rows are committed
LoadOutcomes == {"csv", "database", "ok"}

\* load_csv_data(file_path, database_path): DataLoader() builds its DatabaseLoader on
\* get_database_manager(), the manager of DB_CONFIG['database_path']; a database_path
\* only sets loader.db_manager, which load_data_from_csv does not use
load_csv_data(files, csv, database_path, import, outcome) ==
    IF database_path # NoPath /\ import = "ImportError"
    THEN [raised |-> TRUE, success |-> FALSE, files |-> files]
    ELSE [raised |-> FALSE,
          success |-> (outcome = "ok"),
          files |-> IF outcome = "ok" THEN [files EXCEPT ![main_db_path] = csv]
                    ELSE IF outcome = "database" THEN connect(files, main_db_path)
                    ELSE files]

MainState ==
    [active_db_path |-> main_db_path, is_temp_mode |-> FALSE, current_upload_file |-> NoFile]

NoCall == [routine |-> "none", file_path |-> NoFile, database_path |-> NoPath, returned |-> ""]

SandboxIdle ==
    /\ db_files = [path \in DbPaths |-> Absent]
    /\ db_state = MainState
    /\ db_call = NoCall

\* DatabaseStateManager.switch_to_temp_database(csv_file_path), under the lock
SwitchToTempDatabase ==
    \E csv \in CsvFiles, import \in ImportOutcomes, outcome \in LoadOutcomes :
        LET backed == IF db_files[main_db_path] # Absent
                      THEN copy2(db_files, main_db_path, backup_db_path)
                      ELSE [raised |-> FALSE, files |-> db_files]
            connected == connect(backed.files, temp_db_path)
            schema == initialize_database_schema(<<temp_db_path>>)
            load == load_csv_data(connected, csv, temp_db_path, import, outcome)
            failed(files) ==
                /\ db_files' = files
                /\ db_state' = db_state
                /\ db_call' = [routine |-> "switch_to_temp_database", file_path |-> csv,
                               database_path |-> temp_db_path, returned |-> "False"]
        IN  /\ IF backed.raised THEN failed(db_files)
               ELSE IF schema = "TypeError" THEN failed(connected)
               ELSE IF load.raised \/ ~load.success THEN failed(load.files)
               ELSE /\ db_files' = load.files
                    /\ db_state' = [active_db_path |-> temp_db_path, is_temp_mode |-> TRUE,
                                    current_upload_file |-> csv]
                    /\ db_call' = [routine |-> "switch_to_temp_database", file_path |-> csv,
                                   database_path |-> temp_db_path, returned |-> "True"]
            /\ UNCHANGED <<tier_vars, service_vars, sanitizer_vars, forecast_vars,
                           loader_vars, season_vars, requests, heuristic_vars, report_vars,
                           aggregator_vars, analyze_vars>>

\* DatabaseStateManager.switch_to_main_database(), under the lock
SwitchToMainDatabase ==
    LET restored == IF db_files[backup_db_path] # Absent
                    THEN copy2(db_files, backup_db_path, main_db_path)
                    ELSE [raised |-> FALSE, files |-> db_files]
        no_temp == IF restored.files[temp_db_path] # Absent
                   THEN unlink(restored.files, temp_db_path)
                   ELSE restored.files
        no_backup == IF no_temp[backup_db_path] # Absent
                     THEN unlink(no_temp, backup_db_path)
                     ELSE no_temp
    IN  /\ IF restored.raised
           THEN /\ UNCHANGED <<db_files, db_state>>
                /\ db_call' = [routine |-> "switch_to_main_database", file_path |-> NoFile,
                               database_path |-> NoPath, returned |-> "False"]
           ELSE /\ db_files' = no_backup
                /\ db_state' = MainState
                /\ db_call' = [routine |-> "switch_to_main_database", file_path |-> NoFile,
                               database_path |-> NoPath, returned |-> "True"]
        /\ UNCHANGED <<tier_vars, service_vars, sanitizer_vars, forecast_vars, loader_vars,
                       season_vars, requests, heuristic_vars, report_vars, aggregator_vars,
                       analyze_vars>>

\* load_csv_data(file_path, database_path) called on its own, as POST /analyze does
\* without a path and switch_to_temp_database does with the temporary path
CallLoadCsvData ==
    \E csv \in CsvFiles, database_path \in {NoPath, temp_db_path},
       import \in ImportOutcomes, outcome \in LoadOutcomes :
        LET load == load_csv_data(db_files, csv, database_path, import, outcome)
        IN  /\ db_files' = load.files
            /\ db_call' = [routine |-> "load_csv_data", file_path |-> csv,
                           database_path |-> database_path,
                           returned |-> IF load.raised THEN "ImportError"
                                        ELSE IF load.success THEN "True" ELSE "False"]
            /\ UNCHANGED <<db_state, tier_vars, service_vars, sanitizer_vars, forecast_vars,
                           loader_vars, season_vars, requests, heuristic_vars, report_vars,
                           aggregator_vars, analyze_vars>>

NextSandbox ==
    \/ SwitchToTempDatabase
    \/ SwitchToMainDatabase
    \/ CallLoadCsvData

----------------------------------------------------------------------------
(* Specifications *)

\* the analysis service answering requests over a loaded sales frame
Init ==
    /\ sales_df \in Frames(MaxTx)
    /\ response = NoResponse
    /\ TierIdle
    /\ SanitizerIdle
    /\ ForecastIdle
    /\ LoaderIdle
    /\ SeasonIdle
    /\ CallersIdle
    /\ HeuristicIdle
    /\ ReportIdle
    /\ AggregatorIdle
    /\ AnalyzeIdle
    /\ SandboxIdle

Next == NextService

Spec == Init /\ [][Next]_vars

\* the priority engine applied to a rank-ordered recommendation list
InitTier ==
    /\ recommendations_df \in RankedLists
    /\ prioritized = NoDict
    /\ priority = <<>>
    /\ tier_pc = "input"
    /\ ServiceIdle
    /\ SanitizerIdle
    /\ ForecastIdle
    /\ LoaderIdle
    /\ SeasonIdle
    /\ CallersIdle
    /\ HeuristicIdle
    /\ ReportIdle
    /\ AggregatorIdle
    /\ AnalyzeIdle
    /\ SandboxIdle

SpecTier == InitTier /\ [][NextTier]_vars

\* the row sanitizer applied to a raw table
InitSanitizer ==
    /\ raw_df \in RawTables(MaxRows)
    /\ df_clean = <<>>
    /\ clean_pc = "raw"
    /\ clean_report = NoReport
    /\ TierIdle
    /\ ServiceIdle
    /\ ForecastIdle
    /\ LoaderIdle
    /\ SeasonIdle
    /\ CallersIdle
    /\ HeuristicIdle
    /\ ReportIdle
    /\ AggregatorIdle
    /\ AnalyzeIdle
    /\ SandboxIdle

SpecSanitizer == InitSanitizer /\ [][NextSanitizer]_vars

RECURSIVE HistoryLists(_)
HistoryLists(n) ==
    IF n = 1 THEN {<<h>> : h \in Histories}
    ELSE LET shorter == HistoryLists(n - 1)
         IN  shorter \cup
             {Append(l, h) : l \in {m \in shorter : Len(m) = n - 1}, h \in Histories}

\* a forecasting run over the requested medicines
InitForecast ==
    /\ fc_impl \in {"forecast", "analyzer", "Engine"}
    /\ available \in BOOLEAN
    /\ sales_history \in HistoryLists(MaxTop)
    /\ fc_i = 1
    /\ fc_pc = "sarima"
    /\ sarima_forecast = None
    /\ forecasts = {}
    /\ calls = <<>>
    /\ TierIdle
    /\ ServiceIdle
    /\ SanitizerIdle
    /\ LoaderIdle
    /\ SeasonIdle
    /\ CallersIdle
    /\ HeuristicIdle
    /\ ReportIdle
    /\ AggregatorIdle
    /\ AnalyzeIdle
    /\ SandboxIdle

SpecForecast == InitForecast /\ [][NextForecast]_vars

\* a loader applied to a CSV file
InitLoader ==
    /\ csv_missing \in MissingColumnSets
    /\ csv_rows \in RawTables(MaxLoadRows)
    /\ load_pc = "file"
    /\ load_result = NotLoaded
    /\ TierIdle
    /\ ServiceIdle
    /\ SanitizerIdle
    /\ ForecastIdle
    /\ SeasonIdle
    /\ CallersIdle
    /\ HeuristicIdle
    /\ ReportIdle
    /\ AggregatorIdle
    /\ AnalyzeIdle
    /\ SandboxIdle

SpecLoader == InitLoader /\ [][NextLoader]_vars

\* every component labels one transaction, dated any day of the year
InitSeason ==
    /\ season_date \in 0..364
    /\ season_labels = Unlabelled
    /\ TierIdle
    /\ ServiceIdle
    /\ SanitizerIdle
    /\ ForecastIdle
    /\ LoaderIdle
    /\ CallersIdle
    /\ HeuristicIdle
    /\ ReportIdle
    /\ AggregatorIdle
    /\ AnalyzeIdle
    /\ SandboxIdle

SpecSeason == InitSeason /\ [][NextSeason]_vars

\* concurrent requests over one sales file
InitCallers ==
    /\ sales_df \in Frames(MaxSharedTx)
    /\ response = NoResponse
    /\ requests = [r \in Callers |-> IdleRequest]
    /\ TierIdle
    /\ SanitizerIdle
    /\ ForecastIdle
    /\ LoaderIdle
    /\ SeasonIdle
    /\ HeuristicIdle
    /\ ReportIdle
    /\ AggregatorIdle
    /\ AnalyzeIdle
    /\ SandboxIdle

SpecCallers == InitCallers /\ [][NextCallers]_vars

\* the heuristic engine applied to a feature-engineered frame
InitHeuristic ==
    /\ featured_df \in FeaturedFrames(MaxFeatured)
    /\ heuristic = NotRun
    /\ TierIdle
    /\ ServiceIdle
    /\ SanitizerIdle
    /\ ForecastIdle
    /\ LoaderIdle
    /\ SeasonIdle
    /\ CallersIdle
    /\ ReportIdle
    /\ AggregatorIdle
    /\ AnalyzeIdle
    /\ SandboxIdle

SpecHeuristic == InitHeuristic /\ [][NextHeuristic]_vars

\* the report written from a recommendation set
InitReport ==
    /\ report_df \in ReportSets
    /\ report = NoOutput
    /\ TierIdle
    /\ ServiceIdle
    /\ SanitizerIdle
    /\ ForecastIdle
    /\ LoaderIdle
    /\ SeasonIdle
    /\ CallersIdle
    /\ HeuristicIdle
    /\ AggregatorIdle
    /\ AnalyzeIdle
    /\ SandboxIdle

SpecReport == InitReport /\ [][NextReport]_vars

\* the aggregation of a cleaned frame, straight or through the sales table
InitAggregator ==
    /\ named_df \in NamedFrames(MaxNamed)
    /\ sales_table = <<>>
    /\ aggregates = NotAggregated
    /\ TierIdle
    /\ ServiceIdle
    /\ SanitizerIdle
    /\ ForecastIdle
    /\ LoaderIdle
    /\ SeasonIdle
    /\ CallersIdle
    /\ HeuristicIdle
    /\ ReportIdle
    /\ AnalyzeIdle
    /\ SandboxIdle

SpecAggregator == InitAggregator /\ [][NextAggregator]_vars

\* the server after start-up, before any request
InitAnalyze ==
    /\ AnalyzeIdle
    /\ TierIdle
    /\ ServiceIdle
    /\ SanitizerIdle
    /\ ForecastIdle
    /\ LoaderIdle
    /\ SeasonIdle
    /\ CallersIdle
    /\ HeuristicIdle
    /\ ReportIdle
    /\ AggregatorIdle
    /\ SandboxIdle

\* the database directory with or without a main database and a left-over
\* temporary database
InitSandbox ==
    /\ db_files \in {f \in [DbPaths -> DbContents] : f[temp_db_path] \in {Absent, EmptyDb}}
    /\ db_state = MainState
    /\ db_call = NoCall
    /\ TierIdle
    /\ ServiceIdle
    /\ SanitizerIdle
    /\ ForecastIdle
    /\ LoaderIdle
    /\ SeasonIdle
    /\ CallersIdle
    /\ HeuristicIdle
    /\ ReportIdle
    /\ AggregatorIdle
    /\ AnalyzeIdle

SpecSandbox == InitSandbox /\ [][NextSandbox]_vars

SpecAnalyze == InitAnalyze /\ [][NextAnalyze]_vars

\* every request thread that has entered trigger_analysis keeps being scheduled and
\* its calls return
SpecAnalyzeFair ==
    /\ InitAnalyze
    /\ [][NextAnalyze]_vars
    /\ \A r \in Clients : WF_vars(Thread(r))

----------------------------------------------------------------------------
(* Properties of the priority engine (SpecTier) *)

DictTiered == tier_pc \in {"categorize_medicines_by_priority", "categorize_by_priority"}

ColumnTiered == tier_pc = "get_seasonal_recommendations"

TierOf(level) == IF level \in DOMAIN prioritized THEN prioritized[level] ELSE <<>>

\* the members of the four tiers, CRITICAL first
TierMembers == Concat([k \in 1..4 |-> TierOf(Levels[k])])

\* the column is a run of CRITICAL, then HIGH, then MEDIUM, then LOW
ColumnIsRuns ==
    \E a \in 0..Len(priority) : \E b \in a..Len(priority) : \E c \in b..Len(priority) :
        \A i \in 1..Len(priority) :
            priority[i] = (IF i <= a THEN "CRITICAL"
                           ELSE IF i <= b THEN "HIGH"
                           ELSE IF i <= c THEN "MEDIUM" ELSE "LOW")

\* C1: for every non-empty rank-ordered recommendation list the tiers are a
\* partition: read CRITICAL, HIGH, MEDIUM, LOW in turn, the tier members are
\* exactly the ranks 1..N in order, each carrying the label of its tier, so every
\* recommendation has exactly one tier, each tier is a contiguous run of ranks and
\* the four member counts add up to N; the in-place priority column is likewise a
\* run of CRITICAL, HIGH, MEDIUM, LOW over all N rows.
C1_TiersArePartition ==
    LET n == Len(recommendations_df)
    IN  /\ (DictTiered /\ n >= 1) =>
              /\ DOMAIN prioritized = {"CRITICAL", "HIGH", "MEDIUM", "LOW"}
              /\ Len(TierMembers) = n
              /\ \A i \in 1..Len(TierMembers) :
                     /\ TierMembers[i].rank = i
                     /\ TierMembers[i].last_season_sales = recommendations_df[i].last_season_sales
              /\ \A k \in 1..4 : \A i \in 1..Len(TierOf(Levels[k])) :
                     TierOf(Levels[k])[i].priority_level = Levels[k]
              /\ Len(prioritized.CRITICAL) + Len(prioritized.HIGH)
                     + Len(prioritized.MEDIUM) + Len(prioritized.LOW) = n
        /\ (ColumnTiered /\ n >= 1) => (Len(priority) = n /\ ColumnIsRuns)

\* a ten-item list split 2 / 3 / 3 / 2
C1_Witness ==
    /\ DictTiered
    /\ Len(recommendations_df) = 10
    /\ Len(prioritized.CRITICAL) = 2
    /\ Len(prioritized.HIGH) = 3
    /\ Len(prioritized.MEDIUM) = 3
    /\ Len(prioritized.LOW) = 2

DetailTiered == tier_pc = "get_detailed_seasonal_analysis"

\* the number of members of the k-th band, CRITICAL first
BandSize(k) ==
    IF DictTiered THEN Len(TierOf(Levels[k]))
    ELSE IF ColumnTiered
         THEN Cardinality({i \in 1..Len(priority) : priority[i] = Levels[k]})
         ELSE Cardinality({i \in 1..Len(priority) :
                              priority[i] = <<"critical", "high", "medium", "low">>[k]})

\* max(floor(share% of n), 1)
NominalSize(share, n) == IF (share * n) \div 100 >= 1 THEN (share * n) \div 100 ELSE 1

BandsAsStated ==
    LET n == Len(recommendations_df)
    IN  /\ BandSize(1) = NominalSize(20, n)
        /\ BandSize(2) = NominalSize(30, n)
        /\ BandSize(3) = NominalSize(30, n)
        /\ BandSize(4) = n - NominalSize(20, n) - NominalSize(30, n) - NominalSize(30, n)
        /\ BandSize(4) >= 0

\* C20 as stated: of a rank-ordered list of N recommendations CRITICAL has
\* max(floor(0.20 N), 1) members, HIGH max(floor(0.30 N), 1), MEDIUM
\* max(floor(0.30 N), 1), and LOW exactly the remaining N minus those three sizes,
\* which is never negative.
C20_BandSizes ==
    (tier_pc # "input" /\ Len(recommendations_df) >= 1) => BandsAsStated

\* C20 for the two categorizers and the priority column on lists of three or more
C20_ThreeOrMore ==
    ((DictTiered \/ ColumnTiered) /\ Len(recommendations_df) >= 3) => BandsAsStated

----------------------------------------------------------------------------
(* Properties of the analysis service (Spec) *)

Answered(route) == response.route = route

\* the request was for a season (or a frame) without a single transaction
NoTransactions ==
    \/ Answered("seasonal-summary") /\ sales_df = <<>>
    \/ /\ Answered("recommendations") \/ Answered("top-medicines")
       /\ SelectSeq(sales_df, LAMBDA r : r.Season = response.season) = <<>>

Computed == Answered("recommendations") /\ response.recommendations # EmptyResult

\* C5 as stated: whatever buffer the endpoint accepts, every recommendation has
\* suggested_stock_quantity >= last_season_sales.
C5_SuggestedCoversSales ==
    Computed =>
        \A i \in 1..Len(response.recommendations.recommendations) :
            response.recommendations.recommendations[i].suggested_stock_quantity
                >= response.recommendations.recommendations[i].last_season_sales

\* C6: the ranks of a season's recommendation set are exactly 1..N, rank i at
\* position i, and sales never increase along the ranks.
C6_RanksDenseAndDescending ==
    Computed =>
        LET recs == response.recommendations.recommendations
        IN  /\ Len(recs) >= 1
            /\ \A i \in 1..Len(recs) : recs[i].rank = i
            /\ {recs[i].rank : i \in 1..Len(recs)} = 1..Len(recs)
            /\ \A i \in 1..(Len(recs) - 1) :
                   recs[i].last_season_sales >= recs[i + 1].last_season_sales

\* three medicines of one season whose sales differ, the last-named selling most
C6_Witness ==
    /\ Computed
    /\ Len(response.recommendations.recommendations) = 3
    /\ response.recommendations.recommendations[1].medicine_name = "PARA 500"
    /\ response.recommendations.recommendations[1].last_season_sales
           > response.recommendations.recommendations[3].last_season_sales

\* C10 as stated: a request over zero transactions is answered with an explicit
\* no-data signal: not as a success, and without placeholder medicines or totals.
C10_NoDataIsSignalled ==
    (response # NoResponse /\ NoTransactions) =>
        /\ ~response.success
        /\ Answered("top-medicines") => response.medicines = <<>>
        /\ Answered("seasonal-summary") => response.data.total_records = 0

----------------------------------------------------------------------------
(* Properties of the row sanitizer (SpecSanitizer) *)

Cleaned == clean_pc # "raw"

\* the raw row a retained row came from
RawOf(r) == raw_df[r.index]

\* C3: every retained Transaction has quantity > 0 and unit_price > 0, as typed
\* values and in the raw row it came from; a raw row whose quantity is -5 or 0,
\* whose unit_price is 0, or whose quantity or unit_price is not a number is never
\* retained.
C3_RetainedArePositive ==
    Cleaned =>
        /\ \A i \in 1..Len(df_clean) :
               /\ df_clean[i].quantity.tag = "num" /\ df_clean[i].quantity.v > 0
               /\ df_clean[i].unit_price.tag = "num" /\ df_clean[i].unit_price.v > 0
               /\ RawOf(df_clean[i]).quantity = df_clean[i].quantity
               /\ RawOf(df_clean[i]).unit_price = df_clean[i].unit_price
        /\ \A j \in 1..Len(raw_df) :
               (\/ raw_df[j].quantity \in {NumCell(-5), NumCell(0), Text}
                \/ raw_df[j].unit_price \in {NumCell(0), Text})
                   => \A i \in 1..Len(df_clean) : df_clean[i].index # j

\* a row with quantity -5 is dropped from a table whose other row is retained
C3_Witness ==
    /\ Cleaned
    /\ Len(raw_df) = 2
    /\ raw_df[1].quantity = NumCell(-5)
    /\ Len(df_clean) = 1
    /\ df_clean[1].index = 2

\* C4 as stated: every retained Transaction has a non-null date and a non-null
\* medicine_key; a row whose date does not parse is dropped like one whose date
\* is absent.
C4_RetainedHaveDateAndKey ==
    Cleaned =>
        \A i \in 1..Len(df_clean) :
            /\ ~isnull(df_clean[i].date)
            /\ ~isnull(df_clean[i].medicine_name_clean)
            /\ RawOf(df_clean[i]).date.tag = "date"

QualityReasons == {"missing_critical", "invalid_numeric", "non_positive"}

\* C15 as stated: a cleaning routine that returns hands its caller, with the
\* retained rows, a quality summary with one count per drop reason, and the three
\* counts add up to the number of input rows minus the number of retained rows.
C15_QualitySummaryReturned ==
    clean_pc \in {"clean_data", "_clean_dataframe"} =>
        /\ DOMAIN clean_report.summary = QualityReasons
        /\ clean_report.summary["missing_critical"] + clean_report.summary["invalid_numeric"]
               + clean_report.summary["non_positive"] = Len(raw_df) - Len(df_clean)

----------------------------------------------------------------------------
(* Properties of the forecasting orchestrator (SpecForecast) *)

SarimaCalls == {k \in 1..Len(calls) : calls[k].model = "SARIMA"}

\* C7 as stated: with the libraries installed, the seasonal-autoregressive model
\* skips the fit exactly when the weekly series has fewer than 24 points; with 24
\* or more weekly points a fit is attempted whatever the number of sale days.
C7_SarimaGateIsWeeklyCount ==
    available =>
        \A k \in SarimaCalls :
            calls[k].fit_attempted <=> (calls[k].weekly >= 24)

\* C8: both models are always attempted for every requested medicine: the run is
\* never aborted by an exception, every SARIMA call is followed by the Prophet
\* call for the same medicine whatever the SARIMA outcome was, and a finished run
\* has called both models for each requested medicine.
C8_BothModelsAlwaysAttempted ==
    /\ fc_pc # "aborted"
    /\ \A k \in 1..Len(calls) : ~calls[k].raised
    /\ \A k \in SarimaCalls :
           IF k < Len(calls)
           THEN calls[k + 1].model = "Prophet" /\ calls[k + 1].medicine = calls[k].medicine
           ELSE fc_pc = "prophet" /\ fc_i = calls[k].medicine
    /\ fc_pc = "done" =>
           /\ Len(calls) = 2 * Len(sales_history)
           /\ \A m \in 1..Len(sales_history) :
                  /\ calls[2 * m - 1].medicine = m /\ calls[2 * m - 1].model = "SARIMA"
                  /\ calls[2 * m].medicine = m /\ calls[2 * m].model = "Prophet"

\* the SARIMA fit of the first medicine failed; its Prophet model and both models
\* of the second medicine still ran
C8_Witness ==
    /\ fc_pc = "done"
    /\ Len(sales_history) = 2
    /\ calls[1].fit = "error"
    /\ calls[2].model = "Prophet" /\ calls[2].medicine = 1
    /\ calls[3].medicine = 2 /\ calls[4].medicine = 2

\* C9 as stated: when the run is over, the result holds, for every requested
\* medicine and each of the two model kinds, a slot that is a forecast or a
\* failure naming its reason.
C9_EveryModelHasASlot ==
    fc_pc = "done" =>
        \A m \in 1..Len(sales_history) : \A model \in {"SARIMA", "Prophet"} :
            \E e \in forecasts :
                /\ e.medicine = m
                /\ e.model = model
                /\ e.slot.success \/ e.slot.error # ""

----------------------------------------------------------------------------
(* Properties of the CSV loaders (SpecLoader) *)

Loaded == load_pc # "file"

Loader(missing, table) ==
    IF load_pc = "Engine.load_sales_data" THEN engine_load_sales_data(missing, table)
    ELSE IF load_pc = "load_csv_file" THEN load_csv_file(missing, table)
    ELSE load_sales_data(missing, table)

\* files with every column that leave no transaction: no row, a row without a
\* date, a row with a negative quantity
UnusableTables ==
    {<<>>,
     <<[date |-> Null, medicine_name |-> StrCell(<<" ", "p", " ">>),
        quantity |-> NumCell(2), unit_price |-> NumCell(5)]>>,
     <<[date |-> DateCell(Mar01), medicine_name |-> StrCell(<<" ", "p", " ">>),
        quantity |-> NumCell(-5), unit_price |-> NumCell(5)]>>}

\* C11 as stated: a file lacking any required column yields no transactions, and
\* what the loader hands back differs from what it hands back for a file with all
\* columns whose rows are all dropped or that has no rows.
C11_MissingColumnFailsFast ==
    (Loaded /\ csv_missing # {}) =>
        /\ load_result.rows = <<>>
        /\ \A table \in UnusableTables : load_result # Loader({}, table)

----------------------------------------------------------------------------
(* Properties of the seasonal aggregation and the recommendations (Spec) *)

Recs == response.recommendations.recommendations

\* the sanitized transactions of the season the request named
SeasonRows == SelectSeq(sales_df, LAMBDA r : r.Season = response.season)

\* C12: the last_season_sales of a season's recommendations (and the quantity_sold
\* of its untruncated top list) add up to the quantity of the season's sanitized
\* transactions, and every medicine sold in the season has exactly one aggregate.
C12_AggregatesKeepEveryQuantity ==
    /\ Computed =>
           /\ Sum([i \in 1..Len(Recs) |-> Recs[i].last_season_sales])
                  = Sum(ColQuantity(SeasonRows))
           /\ \A k \in 1..Len(MedicineKeys) :
                  Cardinality({i \in 1..Len(Recs) : Recs[i].medicine_name = MedicineKeys[k]})
                      = IF \E j \in 1..Len(SeasonRows) :
                               SeasonRows[j].medicine_name_clean = MedicineKeys[k]
                        THEN 1 ELSE 0
    /\ (/\ Answered("top-medicines")
        /\ sales_df # <<>>
        /\ Len(response.medicines)
               = Cardinality({SeasonRows[j].medicine_name_clean : j \in 1..Len(SeasonRows)}))
           => Sum([i \in 1..Len(response.medicines) |-> response.medicines[i].quantity_sold])
                      = Sum(ColQuantity(SeasonRows))

\* two medicines of one season, one of them sold in two transactions
C12_Witness ==
    /\ Computed
    /\ Len(Recs) = 2
    /\ Len(SeasonRows) = 3
    /\ Sum(ColQuantity(SeasonRows)) = 5

----------------------------------------------------------------------------
(* Properties of the season labelling (SpecSeason) *)

\* C13 as stated: every component that has labelled the transaction gave it the
\* same label, "Summer" for months 2..5, "Monsoon" for 6..9 and "Winter" for
\* 10, 11, 12 and 1, spelled identically.
C13_OneSeasonMapping ==
    \A component \in DOMAIN season_labels :
        season_labels[component] # "" =>
            season_labels[component] =
                CASE Month(season_date) \in {2, 3, 4, 5} -> "Summer"
                  [] Month(season_date) \in {6, 7, 8, 9} -> "Monsoon"
                  [] OTHER -> "Winter"

----------------------------------------------------------------------------
(* Properties of concurrent requests (SpecCallers) *)

\* what the call of request r returns when it runs alone on the table it was given
AloneResults(r) ==
    IF requests[r].op = "get_seasonal_recommendations"
    THEN {get_seasonal_recommendations(requests[r].given.rows, requests[r].season, 15, ties) :
              ties \in TieOrders}
    ELSE {get_seasonal_performers(requests[r].given)}

\* C14 as stated: whatever the interleaving, a finished call returned what it
\* returns when run alone on its own snapshot, and no call in progress or finished
\* has changed the transaction table it was given.
C14_CallsAreIndependent ==
    \A r \in Callers :
        /\ requests[r].pc = "done" => requests[r].result.value \in AloneResults(r)
        /\ requests[r].df = requests[r].given

----------------------------------------------------------------------------
(* Properties of the heuristic engine (SpecHeuristic) *)

HeuristicRan == heuristic.routine = "get_heuristic_recommendations"

\* either recommendation routine has returned
Recommended ==
    heuristic.routine \in {"get_heuristic_recommendations",
                           "generate_heuristic_recommendations"}

\* the transactions of the target season
TargetRows == SelectSeq(featured_df, LAMBDA r : r.Season = heuristic.target_season)

\* floor(quantity * (1 + buffer / 100)) in exact arithmetic
FloorBuffered(quantity, buffer) == (quantity * (100 + buffer)) \div 100

\* PARA 500: quantity 10 on 2023-03-01 and quantity 20 on 2023-03-15, price 5
ParaExample ==
    <<[date |-> Mar01, medicine_name_clean |-> "PARA 500", quantity |-> 10,
       unit_price |-> 5, total_sales |-> 50, invoice_id |-> 1, Season |-> "Summer"],
      [date |-> Mar15, medicine_name_clean |-> "PARA 500", quantity |-> 20,
       unit_price |-> 5, total_sales |-> 100, invoice_id |-> 1, Season |-> "Summer"]>>

\* C16 as stated: every suggested_stock_quantity (and every buffered quantity) is
\* floor(sales * (1 + buffer)), and the PARA 500 example under the default buffer
\* aggregates to total_quantity 30, total_revenue 150 and suggested quantity 34.
C16_SuggestedIsFloorOfBuffered ==
    /\ HeuristicRan =>
           /\ \A i \in 1..Len(heuristic.recommendations) :
                  heuristic.recommendations[i].suggested_stock_quantity
                      = FloorBuffered(heuristic.recommendations[i].last_season_sales,
                                      heuristic.buffer)
           /\ (/\ featured_df = ParaExample
               /\ heuristic.target_season = "Summer"
               /\ heuristic.buffer = 15) =>
                  /\ Len(heuristic.recommendations) = 1
                  /\ heuristic.recommendations[1].last_season_sales = 30
                  /\ heuristic.recommendations[1].total_revenue = 150
                  /\ heuristic.recommendations[1].suggested_stock_quantity = 34
    /\ heuristic.routine = "apply_safety_buffer" =>
           heuristic.buffered = FloorBuffered(heuristic.quantity, heuristic.buffer)

\* every transaction of the target season has a date that parsed
TargetDated == \A i \in 1..Len(TargetRows) : TargetRows[i].date # NaTDay

\* days between the earliest and the latest transaction of the target season,
\* 90 when they fall on one day
ObservedDays ==
    LET dates == {TargetRows[i].date : i \in 1..Len(TargetRows)}
    IN  IF SetMax(dates) = SetMin(dates) THEN 90 ELSE SetMax(dates) - SetMin(dates)

\* C17 as stated: in every recommendation run the divisor of daily_avg_sales is the
\* number of days between the earliest and latest transaction date of the target
\* season, 90 when that is zero, so daily_avg_sales is
\* round(last_season_sales / days_in_season, 2) for every medicine. Stated over
\* seasons whose transactions all have a parsed date.
C17_DailyAverageOverObservedDays ==
    (Recommended /\ TargetRows # <<>> /\ TargetDated) =>
        /\ ObservedDays > 0
        /\ \A i \in 1..Len(heuristic.recommendations) :
               heuristic.recommendations[i].daily_avg_sales
                   = RoundHundredths(heuristic.recommendations[i].last_season_sales,
                                     ObservedDays)

\* C18 as stated: recommendations come in descending last_season_sales, and two
\* medicines with equal last_season_sales stay in the order the aggregator emitted
\* them, ascending medicine key, so one input has one ranking.
C18_TiesKeepEmissionOrder ==
    HeuristicRan =>
        \A i, j \in 1..Len(heuristic.recommendations) :
            i < j =>
                /\ heuristic.recommendations[i].last_season_sales
                       >= heuristic.recommendations[j].last_season_sales
                /\ heuristic.recommendations[i].last_season_sales
                       = heuristic.recommendations[j].last_season_sales
                   => KeyIndex(heuristic.recommendations[i].medicine_name)
                          < KeyIndex(heuristic.recommendations[j].medicine_name)

\* four times the 75th percentile of daily_avg_sales over the whole set, by linear
\* interpolation between the two ranked values around position 0.75 * (N - 1)
\* counted from the smallest, which is the last of the ranking
Percentile75Times4 ==
    LET recs == heuristic.recommendations
        n == Len(recs)
        below == (3 * (n - 1)) \div 4
        fraction4 == (3 * (n - 1)) % 4
        lower == recs[n - below].daily_avg_sales
        upper == IF fraction4 = 0 THEN lower ELSE recs[n - below - 1].daily_avg_sales
    IN  IF lower = NaNValue \/ upper = NaNValue THEN NaNValue
        ELSE 4 * lower + fraction4 * (upper - lower)

\* a comparison with nan on either side is false
AtOrAboveP75(i) ==
    /\ heuristic.recommendations[i].daily_avg_sales # NaNValue
    /\ Percentile75Times4 # NaNValue
    /\ 4 * heuristic.recommendations[i].daily_avg_sales >= Percentile75Times4

\* C19 as stated: every recommendation of a season's set is a fast mover exactly when
\* its daily_avg_sales is at or above the linear-interpolation 75th percentile of
\* daily_avg_sales over the whole set; so every non-empty set has a fast mover and
\* the fast movers are a prefix of the rank order.
C19_FastMoversAtOrAboveP75 ==
    (HeuristicRan /\ heuristic.recommendations # <<>>) =>
        /\ \A i \in 1..Len(heuristic.recommendations) :
               heuristic.recommendations[i].is_fast_mover <=> AtOrAboveP75(i)
        /\ \E i \in 1..Len(heuristic.recommendations) :
               heuristic.recommendations[i].is_fast_mover
        /\ \A i, j \in 1..Len(heuristic.recommendations) :
               (i < j /\ heuristic.recommendations[j].is_fast_mover)
                   => heuristic.recommendations[i].is_fast_mover

\* C19 where every transaction of the season has a parsed date
C19_DatedFastMovers == (HeuristicRan /\ TargetDated) => C19_FastMoversAtOrAboveP75

\* a forecast selection has been made for a positive N
Selected ==
    /\ heuristic.routine \in {"Engine.run_complete_analysis",
                               "AnalysisOrchestrator.run_complete_analysis",
                               "get_advanced_analytics"}
    /\ heuristic.forecast_top_n > 0

\* the medicines of the whole transaction history and their total quantity sold
HistoryKeys == {featured_df[i].medicine_name_clean : i \in 1..Len(featured_df)}

HistoryTotal(name) ==
    Sum(ColQuantity(SelectSeq(featured_df, LAMBDA r : r.medicine_name_clean = name)))

\* C22 as stated: the medicines selected for forecasting are the N with the greatest
\* total quantity sold over the whole transaction history, all seasons, in
\* descending order of that total, not the top N of one season's ranking.
C22_TopNOfWholeHistory ==
    Selected =>
        LET top == heuristic.top_medicines
        IN  /\ Len(top) = Min(heuristic.forecast_top_n, Cardinality(HistoryKeys))
            /\ \A i, j \in 1..Len(top) :
                   i < j => (top[i] # top[j] /\ HistoryTotal(top[i]) >= HistoryTotal(top[j]))
            /\ \A i \in 1..Len(top) :
                   \A name \in HistoryKeys \ {top[j] : j \in 1..Len(top)} :
                       HistoryTotal(top[i]) >= HistoryTotal(name)

\* C22 for the advanced-analytics route alone
C22_RouteTopNOfWholeHistory ==
    heuristic.routine = "get_advanced_analytics" => C22_TopNOfWholeHistory


----------------------------------------------------------------------------
(* Properties of the recommendation summary (Spec) *)

\* the recommendations of the response that carry the label
Labelled(level) == {i \in 1..Len(Recs) : Recs[i].priority = level}

\* C29 as stated: in the summary of get_seasonal_recommendations, for every N >= 1,
\* critical_count, high_count, medium_count and low_count are each non-negative and
\* each equals the number of returned recommendations carrying that priority label.
C29_SummaryCountsMatchLabels ==
    (Computed /\ Len(Recs) >= 1) =>
        LET summary == response.recommendations.summary
        IN  /\ summary.critical_count >= 0
            /\ summary.high_count >= 0
            /\ summary.medium_count >= 0
            /\ summary.low_count >= 0
            /\ summary.critical_count = Cardinality(Labelled("CRITICAL"))
            /\ summary.high_count = Cardinality(Labelled("HIGH"))
            /\ summary.medium_count = Cardinality(Labelled("MEDIUM"))
            /\ summary.low_count = Cardinality(Labelled("LOW"))

\* C29 on sets of three or more medicines
C29_ThreeOrMore == (Computed /\ Len(Recs) >= 3) => C29_SummaryCountsMatchLabels

----------------------------------------------------------------------------
(* Properties of the output files (SpecReport) *)

Reported == report.routine # "none" /\ report.ordering_calendar # <<>>

\* the ranks categorize_medicines_by_priority puts in the tier
TierRanks(level) ==
    LET tiers == categorize_medicines_by_priority(report_df)
    IN  IF report_df = <<>> THEN {}
        ELSE {tiers[level][j].rank : j \in 1..Len(tiers[level])}

\* the total suggested quantity and cost, in paise, of the weeks 1-2 medicines
EarlyQuantity == report.ordering_calendar[1].total_quantity
EarlyCostPaise == report.ordering_calendar[1].estimated_cost_paise

\* C21 as stated: every medicine of the weeks 1-2 window is both a fast mover and a
\* member of the CRITICAL tier of the same recommendation set, and the weeks 9-12
\* window restocks exactly those medicines at 50% of their total suggested quantity
\* (to the whole unit below) and 50% of their cost.
C21_EarlyWindowIsCriticalFastMovers ==
    Reported =>
        /\ \A i \in 1..Len(report.ordering_calendar[1].medicines) :
               /\ report_df[report.ordering_calendar[1].medicines[i]].is_fast_mover
               /\ report.ordering_calendar[1].medicines[i] \in TierRanks("CRITICAL")
        /\ report.ordering_calendar[4].medicines = report.ordering_calendar[1].medicines
        /\ report.ordering_calendar[4].total_quantity = EarlyQuantity \div 2
        /\ 2 * report.ordering_calendar[4].estimated_cost_paise = EarlyCostPaise

\* C21 without the tier: in the calendar of generate_output_file the weeks 1-2
\* medicines are fast movers and weeks 9-12 restocks them at half
C21_EngineRestocksHalf ==
    (Reported /\ report.routine = "generate_output_file") =>
        /\ \A i \in 1..Len(report.ordering_calendar[1].medicines) :
               report_df[report.ordering_calendar[1].medicines[i]].is_fast_mover
        /\ report.ordering_calendar[4].medicines = report.ordering_calendar[1].medicines
        /\ report.ordering_calendar[4].total_quantity = EarlyQuantity \div 2
        /\ 2 * report.ordering_calendar[4].estimated_cost_paise = EarlyCostPaise

\* C30 as stated: the priority_level of every top_20_must_order entry is the tier
\* categorize_medicines_by_priority gives the same medicine, which is also the
\* priority_level of its CSV row, so no medicine has two tiers in one report.
C30_ReportTiersAgree ==
    report.json_written =>
        /\ \A i \in 1..Len(report.top_20_must_order) :
               report.top_20_must_order[i].rank
                   \in TierRanks(report.top_20_must_order[i].priority_level)
        /\ report.csv_written =>
               \A i \in 1..Len(report.csv) :
                   report.csv[i].rank \in TierRanks(report.csv[i].priority_level)

\* C30 for the CSV file alone, where it is written
C30_CsvTiersAgree ==
    report.csv_written =>
        /\ Len(report.csv) = Len(report_df)
        /\ \A i \in 1..Len(report.csv) :
               report.csv[i].rank \in TierRanks(report.csv[i].priority_level)

----------------------------------------------------------------------------
(* Properties of the aggregator (SpecAggregator) *)

Aggregated == aggregates.path # "none"

\* the normalized keys with at least one transaction in the target season
SeasonKeys ==
    {named_df[i].medicine_name_clean :
        i \in {j \in 1..Len(named_df) :
                  create_features_get_season(dt_month(named_df[j].date))
                      = aggregates.target_season}}

\* the normalized key of an emitted aggregate
KeyOf(row) == clean_medicine_name(StrCell(row.medicine_name)).v

\* C23 as stated: on every aggregation path there is exactly one aggregate per
\* distinct normalized medicine key with a transaction in the target season and
\* none for any other key, so names that differ only in case, outer blanks or
\* repeated inner whitespace fall into one aggregate.
C23_OneAggregatePerKey ==
    Aggregated =>
        /\ {KeyOf(row) : row \in aggregates.rows} = SeasonKeys
        /\ Cardinality(aggregates.rows) = Cardinality(SeasonKeys)

\* C23 for the in-memory path alone
C23_InMemoryOneAggregatePerKey ==
    aggregates.path = "memory" => C23_OneAggregatePerKey

----------------------------------------------------------------------------
(* Properties of POST /analyze and the status routes (SpecAnalyze) *)

\* the request is between the update that sets is_running and its return
InRun(r) == analyze_pc[r] \in {"init_db", "load", "analysis", "save"}

\* C24 as stated: at most one request is inside the load-and-analyse steps at any
\* time, under every interleaving of concurrent POST /analyze requests.
C24_AtMostOneRun ==
    Cardinality({r \in Clients : InRun(r)}) <= 1

\* C24, the check alone: a request that reads is_running = True at the check is
\* answered 409 and starts nothing
C24_CheckRejectsWhileRunning ==
    [][\A r \in Clients :
          (analyze_pc[r] = "check" /\ analyze_pc'[r] # "check" /\ analysis_status.is_running)
              => (http'[r] = 409 /\ analyze_pc'[r] = "idle"
                  /\ analysis_status' = analysis_status)]_vars

\* C25: every run that set is_running leaves trigger_analysis, and the step by which
\* it leaves writes is_running False, on the failure, success and exception paths.
C25_RunningIsReset ==
    /\ \A r \in Clients : [](InRun(r) => <>(~InRun(r)))
    /\ [][\A r \in Clients :
            (InRun(r) /\ analyze_pc'[r] = "idle") => ~analysis_status'.is_running]_vars
    /\ []((\A r \in Clients : analyze_pc[r] = "idle") => ~analysis_status.is_running)

\* a run ended on the exception path and the status is not running
C25_Witness ==
    /\ \E r \in Clients : http[r] = 500 /\ analyze_pc[r] = "idle"
    /\ analysis_status.error = "raised"
    /\ analysis_status.progress = 90
    /\ ~analysis_status.is_running

\* C26 as stated: what GET /analysis/status and GET /analysis/results answer is the
\* state the analyze route writes: is_running and progress of the status, and the
\* results of the last completed run.
C26_StatusRoutesReadAnalyzeState ==
    [][(get_response' # get_response) =>
          /\ get_response'.kind = "status" =>
                /\ get_response'.is_running = analysis_status.is_running
                /\ get_response'.progress = analysis_status.progress
          /\ get_response'.kind = "results" =>
                /\ get_response'.results = analysis_status.results
                /\ (get_response'.code = 200) = (analysis_status.results # NoResults)]_vars

\* C26, what does hold: the status routes answer from the dictionary of results.py,
\* which no route writes
C26_StatusRoutesAnswerInitialStatus ==
    /\ results_status = InitialStatus
    /\ get_response.kind = "status" =>
          (~get_response.is_running /\ get_response.progress = 0)
    /\ get_response.kind = "results" => get_response.code = 404

----------------------------------------------------------------------------
(* Properties of the main and the temporary database (SpecSandbox) *)

\* C27: a call of switch_to_temp_database or switch_to_main_database made while the
\* main database exists leaves it in place with the content it had, and leaves the
\* state in main mode; so after any sequence of such calls the main database is as
\* it was before the sequence.
C27_SwitchKeepsMainDatabase ==
    [][(SwitchToTempDatabase \/ SwitchToMainDatabase) =>
          (db_files[main_db_path] # Absent =>
              /\ db_files'[main_db_path] = db_files[main_db_path]
              /\ db_state'.active_db_path = main_db_path
              /\ ~db_state'.is_temp_mode)]_vars

\* switch_to_main_database was called with a main database of sales rows in place
C27_Witness ==
    /\ db_call.routine = "switch_to_main_database"
    /\ db_files[main_db_path] \in CsvFiles
    /\ db_state = MainState

\* C28 as stated: load_csv_data called with the path of the temporary database
\* leaves the main database as it was, whether the load succeeds or fails.
C28_TempLoadKeepsMainDatabase ==
    [][(db_call'.routine = "load_csv_data" /\ db_call'.database_path = temp_db_path)
          => db_files'[main_db_path] = db_files[main_db_path]]_vars

\* C28, through the state manager: switch_to_temp_database leaves the main database
\* as it was, existing or not
C28_SwitchToTempKeepsMainDatabase ==
    [][SwitchToTempDatabase => db_files'[main_db_path] = db_files[main_db_path]]_vars

====
